---------------------------- MODULE Spec2Model ----------------------------
(***************************************************************************)
(* Model of codecollab-ai's in-process message bus (CommunicationHub) and  *)
(* of the agent runtime (BaseAgent) that subscribes to it.                 *)
(*                                                                         *)
(* Scheduling is asyncio's: one event loop, cooperative tasks.  Code       *)
(* between two points where a task really suspends runs atomically, so one *)
(* action of this module is one such stretch of code.  The suspension      *)
(* points modelled are: the dispatch loop's queue wait, the content        *)
(* handler of an agent (user code, may await anything), the backoff sleep  *)
(* of _handle_error, the initialize and cleanup hooks, a plain recipient   *)
(* handler, an asynchronous broadcast observer, and send_request's wait.   *)
(***************************************************************************)
EXTENDS Naturals, Sequences, FiniteSets

\* ------------------------------------------------------------------ bounds
\* Number of messages producers outside the hub may send (responses the
\* agents synthesize come on top of these).
MaxSends == 2
\* AgentConfig.retry_count of every agent of the model.
RetryCount == 2
\* The largest AgentConfig.max_memory_size an agent of the model is given.
MaxMemorySize == 2
\* Failures of the initialize hook are injected only below this error count.
MaxErrors == 1
\* Number of monitoring observers registered with subscribe_to_all.
MaxMonitors == 1
\* Producers outside the hub send only while fewer messages than this wait in
\* the queue.
MaxQueue == 2
\* Number of conversation ids the producers choose from.
MaxConvs == 1
\* Number of times stop() of an agent may run its cleanup hook to the end.
MaxStops == 2
\* The largest limit get_context is called with.
MaxLimit == 3
\* Number of send_request calls a caller makes one after the other.
MaxRequests == 2
\* Number of observers registered where their order is followed.
MaxObservers == 2
\* Number of state-change callbacks registered with an agent.
MaxCallbacks == 2

\* --------------------------------------------------------------- constants
\* AgentRole: the roles handlers subscribe under (a subset of the
\* enumeration)
Roles == {"pm", "dev", "reviewer"}
\* The agents of the model and the role each is configured with.
AgentIds == {"a1"}
RoleOf(a) == "dev"

\* MemoryType (a subset of the enumeration)
MemoryTypes == {"task", "fact"}

\* AgentState
AgentStates == {"initializing", "idle", "processing", "waiting_for_response", "collaborating", "error", "shutdown"}

\* MessagePriority values
LOW == 1
MEDIUM == 2
HIGH == 3
URGENT == 4
Priorities == {LOW, MEDIUM, HIGH, URGENT}

\* No message (the dispatch loop holds none).
NoMsg == [id |-> 0]

VARIABLES
  \* ---- CommunicationHub
  message_queue,          \* asyncio.Queue: sequence of messages, head first
  subscribers,            \* role -> "none" | "plain" | an agent id
  subscriber_keys,        \* the keys of the subscribers dict in the order
                          \* they were first inserted
  broadcast_subscribers,  \* sequence of observers: "monitor" | "request"
  message_history,        \* sequence of every message sent
  conversations,          \* conversation id -> ConversationThread
  delivery_stats,         \* [total_sent, total_delivered, total_failed]
  is_running,
  processing_task,        \* position of _process_messages: "none" (no task),
                          \* "wait", "deliver", "broadcast"
  current,                \* the message the loop dequeued and is dispatching
  cur_handler,            \* the recipient handler the loop is awaiting
  obs_idx,                \* index of the observer the loop is awaiting
  dispatched,             \* log: ids of the messages dequeued, in order
  second_task,            \* a dispatch task alive beside the one the
                          \* variables above describe: "none" | "wait" |
                          \* "deliver" (awaiting a plain recipient handler)
  \* ---- BaseAgent (one entry per agent)
  state,
  error_count,
  last_error,             \* FALSE: None, TRUE: an exception is recorded
  metrics,                \* [messages_sent, messages_received,
                          \*  tasks_completed, tasks_failed]
  conversation_history,   \* sequence of message ids
  previous_state,         \* local of _handle_message
  hpc,                    \* position of _handle_message: "idle", "handling",
                          \* "backoff"
  hsleep,                 \* backoff units left of the sleep in _handle_message
  outcome,                \* log: how the content handler of the latest
                          \* dispatch ended ("text", "empty", "raised"), or
                          \* "cancelled" once that dispatch was cancelled;
                          \* "none" before the first
  spc,                    \* position of start(): "new", "hooks", "backoff",
                          \* "returned", "raised"
  ssleep,                 \* backoff units left of the sleep in start()
  tpc,                    \* position of stop(): "no", "cleanup", "returned",
                          \* "raised"
  uptime,                 \* metrics.uptime: 0 before stop() has set it;
                          \* time moves on between two calls, so each call
                          \* writes a larger value, modelled by its rank
  changes,                \* log: the state changes of the latest action that
                          \* touched the agent's state, each [from, to, by]
  backoffs,               \* log: [prev, cur] delays of the last two backoffs
  \* ---- producers
  \* ---- hub and agent fields the dispatch of a message leaves alone
  active_negotiations,    \* negotiation id -> session
  max_memory_size,        \* AgentConfig.max_memory_size of each agent
  state_change_callbacks, \* per agent, the callbacks in registration order,
                          \* each by what it does: "returns" | "raises".  The
                          \* dispatch, start() and stop() are followed for
                          \* agents with no callback registered.
  notified,               \* log, per agent: the callback calls of the latest
                          \* _change_state call, each [callback, old, new]
  requester,              \* the dispatch task whose recipient handler made
                          \* the send_request call: "none" (the call was made
                          \* outside the loop, or not yet) | "first" | "second"
  \* ---- InMemoryStore
  memories,               \* entry id -> MemoryEntry [memory_type, tags]
  type_index,             \* memory type -> sequence of entry ids
  tag_index,              \* tag -> sequence of entry ids (tags present only)
  \* ---- callers
  call,                   \* log: the latest call of an operation that returns
                          \* a value, [op, arg, result]
  sends_left,             \* messages the outside producers may still send
  request                 \* the send_request call: [pc, id, recipient,
                          \*  future, result]

hubVars == <<message_queue, subscribers, subscriber_keys, broadcast_subscribers, message_history, conversations, delivery_stats, is_running, processing_task, current, cur_handler, obs_idx, dispatched, second_task>>
agentVars == <<state, error_count, last_error, metrics, conversation_history, previous_state, hpc, hsleep, outcome, spc, ssleep, tpc, uptime, changes, backoffs>>
storeVars == <<memories, type_index, tag_index>>
asideVars == <<active_negotiations, max_memory_size, state_change_callbacks, notified, requester, storeVars, call>>
vars == <<hubVars, agentVars, asideVars, sends_left, request>>

\* ----------------------------------------------------------------- Message
\* Conversation ids.  NoConv is None and EmptyConv the empty string, the two
\* values a caller can pass that are no id; GivenConvs are ids callers choose;
\* the other ids are made by uuid4: by Message.__post_init__ for message n
\* (PostInitConv) and by _track_conversation for message n (TrackConv).
NoConv == <<"none", 0>>
EmptyConv == <<"empty", 0>>
GivenConvs == {<<"given", k>> : k \in 1..MaxConvs}
PostInitConv(n) == <<"uuid4", n>>
TrackConv(n) == <<"uuid4 of track", n>>

\* Message(...): id and the fields the hub and the agents read.  rto is
\* metadata['response_to'] (0: the key is absent); cid is the conversation_id
\* argument, which __post_init__ replaces by a new id when it is None.
\* broadcast is metadata['broadcast'] (FALSE: absent) and negotiation_id is
\* metadata['negotiation_id'] (0: absent).
Message(id, sender, recipient, mtype, priority, rr, rto, cid) ==
  [id |-> id, sender |-> sender, recipient |-> recipient,
   message_type |-> mtype, priority |-> priority,
   requires_response |-> rr, response_to |-> rto,
   broadcast |-> FALSE, negotiation_id |-> 0,
   conversation_id |-> IF cid = NoConv THEN PostInitConv(id) ELSE cid]

\* str(uuid.uuid4()): an id no message has yet.  Every message is sent right
\* after it is made, so message_history[m.id] = m.
NewId == Len(message_history) + 1

\* ------------------------------------------------------- CommunicationHub
\* A put that would place the message at the head, for comparison.
QueuePutFirst(q, m) == <<m>> \o q

\* asyncio.Queue.put of (priority, message): the queue of __init__ is a plain
\* asyncio.Queue, which appends at the tail whatever the priority is.
QueuePut(q, m) == Append(q, m)

\* asyncio.Queue.get: the head.
QueueGet(q) == Head(q)

\* A loop whose except clause would absorb nothing, for comparison.
HubCatchesNothing(exc) == FALSE

\* `except Exception` of the dispatch loop: the exception classes it absorbs.
HubCatches(exc) == exc = "Exception"

\* delivery_stats with n more sent, d more delivered, f more failed.
Stats(n, d, f) ==
  [total_sent |-> delivery_stats.total_sent + n,
   total_delivered |-> delivery_stats.total_delivered + d,
   total_failed |-> delivery_stats.total_failed + f]

\* A looser rule than response_handler's, for comparison: any message from
\* the requested recipient resolves the future, whatever it responds to.
ResponseMatchesAnyReply(m) ==
  /\ request.pc = "waiting"
  /\ request.future = 0
  /\ m.sender = request.recipient

\* response_handler of send_request: the condition under which the observer
\* resolves the pending future with message m.
ResponseMatches(m) ==
  /\ request.pc = "waiting"
  /\ request.future = 0
  /\ m.sender = request.recipient
  /\ m.response_to = request.id

\* A loop that would end after one iteration, for comparison.
LoopGoesOnNever(running) == FALSE

\* `while self.is_running` at the end of an iteration of the dispatch loop
LoopGoesOn(running) == running

\* `if message.recipient in self.subscribers`
HasHandler(r) == subscribers[r] # "none"

\* A subscribe that would keep an earlier registration, for comparison.
SubscribeKeepsFirst(subs, r, h) == IF subs[r] = "none" THEN [subs EXCEPT ![r] = h] ELSE subs

\* `self.subscribers[role] = callback`
Subscribe(subs, r, h) == [subs EXCEPT ![r] = h]

\* The keys of the dict after that assignment: a new key goes last, a key
\* already present keeps its place.
InsertKey(keys, r) == IF \E i \in 1..Len(keys) : keys[i] = r THEN keys ELSE Append(keys, r)

\* An iteration that would go back to the queue wait without calling the
\* observers, for comparison.
SkipObservers(m, i) ==
  /\ request' = request
  /\ processing_task' = "wait"
  /\ obs_idx' = 0
  /\ current' = NoMsg
  /\ cur_handler' = "none"

\* The first observer at or after index i that is a coroutine (a monitor);
\* Len + 1 when there is none.  response_handler is a plain function: the loop
\* runs it, fails to await its None result and goes on.
FirstAsync(i) ==
  LET later == {j \in i..Len(broadcast_subscribers) : broadcast_subscribers[j] = "monitor"}
  IN IF later = {} THEN Len(broadcast_subscribers) + 1
     ELSE CHOOSE j \in later : \A k \in later : j <= k

\* The broadcast part of one iteration of _process_messages, from observer i
\* on, up to the next observer that suspends or to task_done().
RunObservers(m, i) ==
  LET stop == FirstAsync(i)
      \* the observer of the pending request is the one send_request added last
      mine == {j \in 1..Len(broadcast_subscribers) :
                 /\ broadcast_subscribers[j] = "request"
                 /\ \A k \in (j + 1)..Len(broadcast_subscribers) : broadcast_subscribers[k] # "request"}
      hit == /\ ResponseMatches(m)
             /\ \E j \in i..(stop - 1) : j \in mine
  IN /\ request' = IF hit THEN [request EXCEPT !.future = m.id] ELSE request
     /\ IF stop <= Len(broadcast_subscribers)
        THEN /\ processing_task' = "broadcast"
             /\ obs_idx' = stop
             /\ current' = m
        ELSE /\ processing_task' = IF LoopGoesOn(is_running) THEN "wait" ELSE "none"
             /\ obs_idx' = 0
             /\ current' = NoMsg
     /\ cur_handler' = "none"

\* ------------------------------------------------------------- BaseAgent
\* One state change of _change_state as a log entry (none when the state is
\* already the requested one).
Chg(old, new, by) == IF old = new THEN <<>> ELSE <<[from |-> old, to |-> new, by |-> by]>>

\* A finally clause that would always go back to idle, for comparison.
TargetStateAlwaysIdle(prev) == "idle"

\* target_state of the finally clause of _handle_message.
TargetState(prev) == IF prev = "processing" THEN "idle" ELSE prev

\* An except clause that would absorb nothing, for comparison.
CatchesNothing(exc) == FALSE

\* `except Exception` of _handle_message: the exception classes it absorbs.
Catches(exc) == exc = "Exception"

\* A constant backoff of one unit, for comparison.
BackoffDelayConstant(ec) == 1

\* asyncio.sleep(1.0 * self.error_count): the delay in units of one second.
BackoffDelay(ec) == 1 * ec

\* A budget that would never be exhausted, for comparison.
WithinBudgetAlways(ec) == TRUE

\* `if self.error_count <= self.config.retry_count`
WithinBudget(ec) == ec <= RetryCount

\* A respond rule that would ignore the handler's result, for comparison.
ShouldRespondAlways(m, result) == m.requires_response

\* `if message.requires_response and response`
ShouldRespond(m, result) == m.requires_response /\ result # ""

\* A report rule that would ignore requires_response, for comparison.
ShouldReportErrorAlways(m) == TRUE

\* `if message.requires_response` of the except clause
ShouldReportError(m) == m.requires_response

\* A response that would itself ask for a response, for comparison.
ResponseAsking(a, m, mtype) == Message(NewId, RoleOf(a), m.sender, mtype, MEDIUM, TRUE, m.id, NoConv)

\* A response that would be made under the conversation id of the message it
\* answers, for comparison.
ResponseInThread(a, m, mtype) == Message(NewId, RoleOf(a), m.sender, mtype, MEDIUM, FALSE, m.id, m.conversation_id)

\* _send_response: the message it builds.
Response(a, m, mtype) == Message(NewId, RoleOf(a), m.sender, mtype, MEDIUM, FALSE, m.id, NoConv)

\* self.conversation_history[-max_memory_size:]
LastN(h, n) == IF n = 0 THEN h ELSE SubSeq(h, Len(h) - n + 1, Len(h))

\* The append and trim of _handle_message.
Remember(h, id, size) ==
  LET h1 == Append(h, id)
  IN IF Len(h1) > size THEN LastN(h1, size) ELSE h1


\* The entry of _handle_message up to the await of the content handler:
\* metrics, history buffer, previous_state, the change to processing.
BeginHandle(a, m) ==
  /\ metrics' = [metrics EXCEPT ![a].messages_received = @ + 1]
  /\ conversation_history' = [conversation_history EXCEPT ![a] = Remember(@, m.id, max_memory_size[a])]
  /\ previous_state' = [previous_state EXCEPT ![a] = state[a]]
  /\ state' = [state EXCEPT ![a] = "processing"]
  /\ changes' = [changes EXCEPT ![a] = Chg(state[a], "processing", "dispatch")]
  /\ hpc' = [hpc EXCEPT ![a] = "handling"]

\* `message.conversation_id or str(uuid.uuid4())` of _track_conversation
TrackId(m) == IF m.conversation_id \in {NoConv, EmptyConv} THEN TrackConv(m.id) ELSE m.conversation_id

\* A thread add_message of which would leave the message as it is, for
\* comparison.
AddMessageUnassigned(m) == m

\* ConversationThread.add_message as _track_conversation calls it: the
\* message, its conversation_id set to the id of the thread.
AddMessage(m) == [m EXCEPT !.conversation_id = TrackId(m)]

\* ConversationThread(id, participants, messages = []): a new thread.
ConversationThread(id, participants) ==
  [id |-> id, participants |-> participants, messages |-> <<>>, status |-> "active"]

\* ConversationThread.get_context: `self.messages[-limit:]`.  A slice that
\* starts at index -limit starts at the first message when limit is the
\* length or more, and also when limit is 0, -0 being index 0.
GetContext(messages, limit) ==
  IF limit = 0 \/ limit >= Len(messages) THEN messages
  ELSE SubSeq(messages, Len(messages) - limit + 1, Len(messages))

\* A tracking that would leave the message out of every thread, for
\* comparison.
TrackConversationNowhere(convs, m) == convs

\* _track_conversation: the conversation map after message m.  The thread is
\* made when the id is new; the message (its id here) is appended to it.
TrackConversation(convs, m) ==
  LET cid == TrackId(m)
      old == IF cid \in DOMAIN convs THEN convs[cid]
             ELSE ConversationThread(cid, <<m.sender, m.recipient>>)
  IN [c \in DOMAIN convs \cup {cid} |->
        IF c = cid THEN [old EXCEPT !.messages = Append(@, m.id)] ELSE convs[c]]

\* send_message for at most one message: queue, history, total_sent, the
\* conversation map.  Queue, history and thread hold the same object, so the
\* conversation_id add_message assigns shows in all three.
SendIf(cond, msg, delivered, failed) ==
  /\ message_queue' = IF cond THEN QueuePut(message_queue, AddMessage(msg)) ELSE message_queue
  /\ message_history' = IF cond THEN Append(message_history, AddMessage(msg)) ELSE message_history
  /\ conversations' = IF cond THEN TrackConversation(conversations, msg) ELSE conversations
  /\ delivery_stats' = Stats(IF cond THEN 1 ELSE 0, delivered, failed)

\* The rest of _handle_message once _handle_error has returned inside the
\* except clause, the agent being in state s with the changes log so far:
\* the error report, the finally clause, the return to the dispatch loop.
FinishFailed(a, m, s, log, f) ==
  LET report == ShouldReportError(m)
      target == TargetState(previous_state[a])
  IN /\ SendIf(report, Response(a, m, "error_report"), 1, 0)
     /\ metrics' = [metrics EXCEPT ![a].tasks_failed = @ + f,
                                   ![a].messages_sent = @ + (IF report THEN 1 ELSE 0)]
     /\ state' = [state EXCEPT ![a] = target]
     /\ changes' = [changes EXCEPT ![a] = log \o Chg(s, target, "dispatch")]
     /\ hpc' = [hpc EXCEPT ![a] = "idle"]
     /\ RunObservers(m, 1)

\* An exception no except clause of _handle_message absorbs: the finally
\* clause runs and the exception reaches the dispatch loop.
Escapes(a, m, exc) ==
  LET target == TargetState(previous_state[a])
  IN /\ state' = [state EXCEPT ![a] = target]
     /\ changes' = [changes EXCEPT ![a] = Chg(state[a], target, "dispatch")]
     /\ hpc' = [hpc EXCEPT ![a] = "idle"]
     /\ hsleep' = [hsleep EXCEPT ![a] = 0]
     /\ IF HubCatches(exc)
        THEN /\ delivery_stats' = Stats(0, 0, 1)
             /\ RunObservers(m, 1)
        ELSE \* the loop's task ends with the exception
             /\ delivery_stats' = delivery_stats
             /\ processing_task' = "none"
             /\ current' = NoMsg
             /\ cur_handler' = "none"
             /\ obs_idx' = 0
             /\ request' = request

\* ----------------------------------------------------------------- actions
\* CommunicationHub.start
\* (with is_running set it returns at once and changes nothing).  The task it
\* creates is a second one when a task of the run before is still alive.
HubStart ==
  /\ ~is_running
  /\ is_running' = TRUE
  /\ IF processing_task = "none"
     THEN /\ processing_task' = "wait"
          /\ second_task' = second_task
     ELSE /\ processing_task' = processing_task
          /\ second_task' = "wait"
  /\ UNCHANGED <<message_queue, subscribers, subscriber_keys, broadcast_subscribers, message_history, conversations, delivery_stats, current, cur_handler, obs_idx, dispatched>>
  /\ UNCHANGED <<agentVars, asideVars, sends_left, request>>

\* CommunicationHub.stop: cancels the loop's task where it is suspended.  A
\* CancelledError is no Exception: in a recipient handler of an agent only
\* the finally clause of _handle_message runs.  This is the outcome in which
\* the CancelledError reaches the loop; HubStopSwallowed is the other one.
\* stop() with two tasks alive is not followed.
HubStop ==
  /\ is_running
  /\ second_task = "none"
  /\ is_running' = FALSE
  /\ IF processing_task = "deliver" /\ cur_handler \in AgentIds
     THEN /\ Escapes(cur_handler, current, "CancelledError")
          /\ outcome' = [outcome EXCEPT ![cur_handler] = "cancelled"]
          /\ UNCHANGED <<error_count, last_error, metrics, conversation_history, previous_state, spc, ssleep, tpc, uptime, backoffs>>
     ELSE /\ processing_task' = "none"
          /\ current' = NoMsg
          /\ cur_handler' = "none"
          /\ obs_idx' = 0
          /\ UNCHANGED <<delivery_stats, request, agentVars>>
  /\ UNCHANGED <<message_queue, subscribers, subscriber_keys, broadcast_subscribers, message_history, conversations, dispatched, second_task, asideVars, sends_left>>

\* CommunicationHub.stop while the loop is in its queue wait and a message
\* has been put for it.  asyncio.wait_for of Python 3.11 and before, when it
\* is cancelled after its inner get() has completed, returns the message
\* instead of raising CancelledError (Python 3.12 raises): the cancellation
\* is lost, stop() goes on awaiting the task, and the loop resumes with the
\* message while is_running is false.
HubStopSwallowed ==
  /\ is_running
  /\ second_task = "none"
  /\ processing_task = "wait"
  /\ message_queue # <<>>
  /\ is_running' = FALSE
  /\ processing_task' = "resume"
  /\ UNCHANGED <<message_queue, subscribers, subscriber_keys, broadcast_subscribers, message_history, conversations, delivery_stats, current, cur_handler, obs_idx, dispatched, second_task>>
  /\ UNCHANGED <<agentVars, asideVars, sends_left, request>>

\* CommunicationHub.subscribe with a plain coroutine as the handler
SubscribePlain(r) ==
  /\ subscribers[r] # "plain"
  /\ subscribers' = Subscribe(subscribers, r, "plain")
  /\ subscriber_keys' = InsertKey(subscriber_keys, r)
  /\ UNCHANGED <<message_queue, broadcast_subscribers, message_history, conversations, delivery_stats, is_running, processing_task, current, cur_handler, obs_idx, dispatched, second_task>>
  /\ UNCHANGED <<agentVars, asideVars, sends_left, request>>

\* A registration that would keep only the newest observer, for comparison.
AddObserverAlone(observers, callback) == <<callback>>

\* `self.broadcast_subscribers.append(callback)` of subscribe_to_all
AddObserver(observers, callback) == Append(observers, callback)

\* CommunicationHub.subscribe_to_all with a monitoring coroutine
SubscribeToAll ==
  /\ Cardinality({j \in 1..Len(broadcast_subscribers) : broadcast_subscribers[j] = "monitor"}) < MaxMonitors
  /\ broadcast_subscribers' = AddObserver(broadcast_subscribers, "monitor")
  /\ UNCHANGED <<message_queue, subscribers, subscriber_keys, message_history, conversations, delivery_stats, is_running, processing_task, current, cur_handler, obs_idx, dispatched, second_task>>
  /\ UNCHANGED <<agentVars, asideVars, sends_left, request>>

\* CommunicationHub.send_message called by a producer outside the hub
EnvSend(sender, recipient, prio, rr, rto, cid) ==
  /\ sends_left > 0
  /\ Len(message_queue) < MaxQueue
  /\ sends_left' = sends_left - 1
  /\ SendIf(TRUE, Message(NewId, sender, recipient, "task_request", prio, rr, rto, cid), 0, 0)
  /\ UNCHANGED <<subscribers, subscriber_keys, broadcast_subscribers, is_running, processing_task, current, cur_handler, obs_idx, dispatched, second_task>>
  /\ UNCHANGED <<agentVars, asideVars, request>>

\* One iteration of _process_messages from the message the queue wait gave
\* to the first suspension: the recipient handler, an observer, or the next
\* queue wait.
Dequeue ==
  /\ message_queue # <<>>
  /\ LET m == QueueGet(message_queue)
         h == subscribers[m.recipient]
     IN /\ message_queue' = Tail(message_queue)
        /\ dispatched' = Append(dispatched, m.id)
        /\ IF ~HasHandler(m.recipient)
           THEN /\ RunObservers(m, 1)
                /\ UNCHANGED <<agentVars>>
           ELSE /\ processing_task' = "deliver"
                /\ current' = m
                /\ cur_handler' = h
                /\ UNCHANGED <<obs_idx, request>>
                /\ IF h \in AgentIds
                   THEN /\ BeginHandle(h, m)
                        /\ UNCHANGED <<error_count, last_error, hsleep, spc, ssleep, tpc, uptime, backoffs, outcome>>
                   ELSE UNCHANGED <<agentVars>>
  /\ UNCHANGED <<subscribers, subscriber_keys, broadcast_subscribers, message_history, conversations, delivery_stats, is_running, second_task, asideVars, sends_left>>

\* The loop, running, gets a message from its queue wait.
HubTake ==
  /\ is_running
  /\ processing_task = "wait"
  /\ Dequeue

\* The loop resumes from the queue wait whose cancellation was lost.
LoopResume ==
  /\ processing_task = "resume"
  /\ Dequeue

\* One iteration of _process_messages run by the second task, from the
\* message its queue wait gave to the await of the recipient handler or, the
\* role having none, to its next queue wait.  The second task is followed
\* with plain handlers, for messages that answer no other message, and while
\* no observer is registered.  While the first task is about to resume, the
\* head of the queue is the message that task holds already.
SecondTake ==
  /\ is_running
  /\ second_task = "wait"
  /\ processing_task # "resume"
  /\ message_queue # <<>>
  /\ QueueGet(message_queue).response_to = 0
  /\ broadcast_subscribers = <<>>
  /\ subscribers[QueueGet(message_queue).recipient] \in {"none", "plain"}
  /\ message_queue' = Tail(message_queue)
  /\ dispatched' = Append(dispatched, QueueGet(message_queue).id)
  /\ second_task' = IF HasHandler(QueueGet(message_queue).recipient) THEN "deliver" ELSE "wait"
  /\ UNCHANGED <<subscribers, subscriber_keys, broadcast_subscribers, message_history, conversations, delivery_stats, is_running, processing_task, current, cur_handler, obs_idx>>
  /\ UNCHANGED <<agentVars, asideVars, sends_left, request>>

\* The plain recipient handler the second task awaits returns (ok) or raises
\* an Exception, and the second task goes on; a handler that is inside a
\* send_request call does neither.  The observers of send_request calls
\* registered since the dequeue are plain functions that ignore a message
\* that answers nothing; with a monitoring observer the task is not followed.
SecondHandlerDone(ok) ==
  /\ second_task = "deliver"
  /\ ~(requester = "second" /\ request.pc = "waiting")
  /\ FirstAsync(1) > Len(broadcast_subscribers)
  /\ delivery_stats' = IF ok THEN Stats(0, 1, 0) ELSE IF HubCatches("Exception") THEN Stats(0, 0, 1) ELSE delivery_stats
  /\ second_task' = IF LoopGoesOn(is_running) THEN "wait" ELSE "none"
  /\ UNCHANGED <<message_queue, subscribers, subscriber_keys, broadcast_subscribers, message_history, conversations, is_running, processing_task, current, cur_handler, obs_idx, dispatched>>
  /\ UNCHANGED <<agentVars, asideVars, sends_left, request>>

\* The plain recipient handler returns (ok) or raises an Exception; a
\* handler that is inside a send_request call does neither.
PlainHandlerDone(ok) ==
  /\ processing_task = "deliver"
  /\ cur_handler = "plain"
  /\ ~(requester = "first" /\ request.pc = "waiting")
  /\ delivery_stats' = IF ok THEN Stats(0, 1, 0) ELSE IF HubCatches("Exception") THEN Stats(0, 0, 1) ELSE delivery_stats
  /\ RunObservers(current, 1)
  /\ UNCHANGED <<message_queue, subscribers, subscriber_keys, broadcast_subscribers, message_history, conversations, is_running, dispatched, second_task>>
  /\ UNCHANGED <<agentVars, asideVars, sends_left>>

\* The monitoring observer the loop awaits returns or raises (the loop
\* absorbs it) and the loop goes on with the observers after it.
MonitorDone ==
  /\ processing_task = "broadcast"
  /\ RunObservers(current, obs_idx + 1)
  /\ UNCHANGED <<message_queue, subscribers, subscriber_keys, broadcast_subscribers, message_history, conversations, delivery_stats, is_running, dispatched, second_task>>
  /\ UNCHANGED <<agentVars, asideVars, sends_left>>

\* `except Exception` around the call of an observer.
ObserverCaught(exc) == exc = "Exception"

\* The monitoring observer the loop awaits raises an Exception.  The clause
\* around the call absorbs it and the loop goes on with the observers after
\* it; an exception that clause let through would reach the outer clause of
\* the loop, which logs it and starts the next iteration.
MonitorRaise ==
  /\ processing_task = "broadcast"
  /\ IF ObserverCaught("Exception")
     THEN RunObservers(current, obs_idx + 1)
     ELSE /\ processing_task' = IF LoopGoesOn(is_running) THEN "wait" ELSE "none"
          /\ current' = NoMsg
          /\ cur_handler' = "none"
          /\ obs_idx' = 0
          /\ request' = request
  /\ UNCHANGED <<message_queue, subscribers, subscriber_keys, broadcast_subscribers, message_history, conversations, delivery_stats, is_running, dispatched, second_task>>
  /\ UNCHANGED <<agentVars, asideVars, sends_left>>

\* CommunicationHub.subscribe_to_all with a monitoring coroutine, called for
\* several observers.
SubscribeObserver ==
  /\ Len(broadcast_subscribers) < MaxObservers
  /\ broadcast_subscribers' = AddObserver(broadcast_subscribers, "monitor")
  /\ UNCHANGED <<message_queue, subscribers, subscriber_keys, message_history, conversations, delivery_stats, is_running, processing_task, current, cur_handler, obs_idx, dispatched, second_task>>
  /\ UNCHANGED <<agentVars, asideVars, sends_left, request>>

\* The content handler of agent a returns result ("" stands for None or an
\* empty string); _handle_message runs to its end and the loop goes on.
AgentHandlerReturn(a, result) ==
  /\ processing_task = "deliver"
  /\ cur_handler = a
  /\ hpc[a] = "handling"
  /\ LET m == current
         respond == ShouldRespond(m, result)
         target == TargetState(previous_state[a])
     IN /\ SendIf(respond, Response(a, m, "task_response"), 1, 0)
        /\ metrics' = [metrics EXCEPT ![a].tasks_completed = @ + 1,
                                      ![a].messages_sent = @ + (IF respond THEN 1 ELSE 0)]
        /\ state' = [state EXCEPT ![a] = target]
        /\ changes' = [changes EXCEPT ![a] = Chg(state[a], target, "dispatch")]
        /\ hpc' = [hpc EXCEPT ![a] = "idle"]
        /\ outcome' = [outcome EXCEPT ![a] = IF result = "" THEN "empty" ELSE "text"]
        /\ RunObservers(m, 1)
  /\ UNCHANGED <<subscribers, subscriber_keys, broadcast_subscribers, is_running, dispatched, second_task, asideVars, sends_left>>
  /\ UNCHANGED <<error_count, last_error, conversation_history, previous_state, hsleep, spc, ssleep, tpc, uptime, backoffs>>

\* The content handler of agent a raises an Exception: tasks_failed, then
\* _handle_error up to its sleep or, the budget exhausted, to its end and on
\* to the end of _handle_message.
AgentHandlerRaise(a) ==
  /\ processing_task = "deliver"
  /\ cur_handler = a
  /\ hpc[a] = "handling"
  /\ LET m == current
         ec == error_count[a] + 1
         log == Chg(state[a], "error", "error")
     IN IF Catches("Exception")
        THEN /\ last_error' = [last_error EXCEPT ![a] = TRUE]
             /\ error_count' = [error_count EXCEPT ![a] = ec]
             /\ IF WithinBudget(ec)
                THEN /\ metrics' = [metrics EXCEPT ![a].tasks_failed = @ + 1]
                     /\ state' = [state EXCEPT ![a] = "error"]
                     /\ changes' = [changes EXCEPT ![a] = log]
                     /\ hpc' = [hpc EXCEPT ![a] = "backoff"]
                     /\ hsleep' = [hsleep EXCEPT ![a] = BackoffDelay(ec)]
                     /\ backoffs' = [backoffs EXCEPT ![a] = [prev |-> @.cur, cur |-> BackoffDelay(ec)]]
                     /\ UNCHANGED <<message_queue, message_history, conversations, delivery_stats, processing_task, current, cur_handler, obs_idx, request>>
                ELSE /\ FinishFailed(a, m, "error", log, 1)
                     /\ UNCHANGED <<hsleep, backoffs>>
        ELSE /\ Escapes(a, m, "Exception")
             /\ UNCHANGED <<message_queue, message_history, conversations, last_error, error_count, metrics, backoffs>>
  /\ outcome' = [outcome EXCEPT ![a] = "raised"]
  /\ UNCHANGED <<subscribers, subscriber_keys, broadcast_subscribers, is_running, dispatched, second_task, asideVars, sends_left>>
  /\ UNCHANGED <<conversation_history, previous_state, spc, ssleep, tpc, uptime>>

\* One unit of the backoff sleep of _handle_error inside _handle_message.
AgentBackoffTick(a) ==
  /\ hpc[a] = "backoff"
  /\ hsleep[a] > 0
  /\ hsleep' = [hsleep EXCEPT ![a] = @ - 1]
  /\ UNCHANGED <<hubVars, asideVars, sends_left, request>>
  /\ UNCHANGED <<state, error_count, last_error, metrics, conversation_history, previous_state, hpc, spc, ssleep, tpc, uptime, changes, backoffs, outcome>>

\* The sleep is over: _handle_error returns the agent to idle, and
\* _handle_message runs to its end.
AgentBackoffWake(a) ==
  /\ processing_task = "deliver"
  /\ cur_handler = a
  /\ hpc[a] = "backoff"
  /\ hsleep[a] = 0
  /\ FinishFailed(a, current, "idle", Chg(state[a], "idle", "error"), 0)
  /\ UNCHANGED <<subscribers, subscriber_keys, broadcast_subscribers, is_running, dispatched, second_task, asideVars, sends_left>>
  /\ UNCHANGED <<error_count, last_error, conversation_history, previous_state, hsleep, spc, ssleep, tpc, uptime, backoffs, outcome>>

\* A start() whose except clause would not raise again, for comparison.
StartEndsReturning(failed) == "returned"

\* How start() ends: it returns after the change to idle and, a step having
\* failed, raises the failure again once _handle_error has returned.
StartEnds(failed) == IF failed THEN "raised" ELSE "returned"

\* BaseAgent.start up to the await of the initialize hook: the subscription.
AgentStart(a) ==
  /\ spc[a] \in {"new", "returned", "raised"}
  /\ subscribers' = Subscribe(subscribers, RoleOf(a), a)
  /\ subscriber_keys' = InsertKey(subscriber_keys, RoleOf(a))
  /\ spc' = [spc EXCEPT ![a] = "hooks"]
  /\ UNCHANGED <<message_queue, broadcast_subscribers, message_history, conversations, delivery_stats, is_running, processing_task, current, cur_handler, obs_idx, dispatched, second_task>>
  /\ UNCHANGED <<state, error_count, last_error, metrics, conversation_history, previous_state, hpc, hsleep, ssleep, tpc, uptime, changes, backoffs, outcome>>
  /\ UNCHANGED <<asideVars, sends_left, request>>

\* The hooks return: start() sets the state to idle and returns.
StartHookReturn(a) ==
  /\ spc[a] = "hooks"
  /\ state' = [state EXCEPT ![a] = "idle"]
  /\ changes' = [changes EXCEPT ![a] = Chg(state[a], "idle", "start")]
  /\ spc' = [spc EXCEPT ![a] = StartEnds(FALSE)]
  /\ UNCHANGED <<hubVars, asideVars, sends_left, request>>
  /\ UNCHANGED <<error_count, last_error, metrics, conversation_history, previous_state, hpc, hsleep, ssleep, tpc, uptime, backoffs, outcome>>

\* A hook raises: _handle_error up to its sleep or, the budget exhausted, to
\* its end, after which start() raises to its caller.
StartHookFails(a) ==
  /\ spc[a] = "hooks"
  /\ LET ec == error_count[a] + 1
     IN /\ last_error' = [last_error EXCEPT ![a] = TRUE]
        /\ error_count' = [error_count EXCEPT ![a] = ec]
        /\ state' = [state EXCEPT ![a] = "error"]
        /\ changes' = [changes EXCEPT ![a] = Chg(state[a], "error", "error")]
        /\ IF WithinBudget(ec)
           THEN /\ spc' = [spc EXCEPT ![a] = "backoff"]
                /\ ssleep' = [ssleep EXCEPT ![a] = BackoffDelay(ec)]
                /\ backoffs' = [backoffs EXCEPT ![a] = [prev |-> @.cur, cur |-> BackoffDelay(ec)]]
           ELSE /\ spc' = [spc EXCEPT ![a] = StartEnds(TRUE)]
                /\ UNCHANGED <<ssleep, backoffs>>
  /\ UNCHANGED <<hubVars, asideVars, sends_left, request>>
  /\ UNCHANGED <<metrics, conversation_history, previous_state, hpc, hsleep, tpc, uptime, outcome>>

\* A hook raises, the failures being injected only below MaxErrors errors.
StartHookRaise(a) ==
  /\ error_count[a] < MaxErrors
  /\ StartHookFails(a)

\* A hook raises, the failures being injected until the budget is exhausted.
StartHookRaiseToTheEnd(a) ==
  /\ error_count[a] <= RetryCount
  /\ StartHookFails(a)

\* One unit of the backoff sleep of _handle_error inside start().
StartBackoffTick(a) ==
  /\ spc[a] = "backoff"
  /\ ssleep[a] > 0
  /\ ssleep' = [ssleep EXCEPT ![a] = @ - 1]
  /\ UNCHANGED <<hubVars, asideVars, sends_left, request>>
  /\ UNCHANGED <<state, error_count, last_error, metrics, conversation_history, previous_state, hpc, hsleep, spc, tpc, uptime, changes, backoffs, outcome>>

\* The sleep is over: _handle_error returns the agent to idle and start()
\* raises to its caller.
StartBackoffWake(a) ==
  /\ spc[a] = "backoff"
  /\ ssleep[a] = 0
  /\ state' = [state EXCEPT ![a] = "idle"]
  /\ changes' = [changes EXCEPT ![a] = Chg(state[a], "idle", "error")]
  /\ spc' = [spc EXCEPT ![a] = StartEnds(TRUE)]
  /\ UNCHANGED <<hubVars, asideVars, sends_left, request>>
  /\ UNCHANGED <<error_count, last_error, metrics, conversation_history, previous_state, hpc, hsleep, ssleep, tpc, uptime, backoffs, outcome>>

\* BaseAgent.stop up to the await of the cleanup hook: the change to shutdown.
AgentStop(a) ==
  /\ tpc[a] # "cleanup"
  /\ uptime[a] < MaxStops
  /\ state' = [state EXCEPT ![a] = "shutdown"]
  /\ changes' = [changes EXCEPT ![a] = Chg(state[a], "shutdown", "stop")]
  /\ tpc' = [tpc EXCEPT ![a] = "cleanup"]
  /\ UNCHANGED <<hubVars, asideVars, sends_left, request>>
  /\ UNCHANGED <<error_count, last_error, metrics, conversation_history, previous_state, hpc, hsleep, spc, ssleep, uptime, backoffs, outcome>>

\* `except Exception` of stop(): the exception classes it absorbs.
StopAbsorbs(exc) == exc = "Exception"

\* The cleanup hook returns (ok) or raises an Exception.  After its return
\* stop() clears the buffers, sets metrics.uptime and returns; the exception
\* is logged and stop() returns.
StopCleanupDone(a, ok) ==
  /\ tpc[a] = "cleanup"
  /\ tpc' = [tpc EXCEPT ![a] = IF ok \/ StopAbsorbs("Exception") THEN "returned" ELSE "raised"]
  /\ uptime' = [uptime EXCEPT ![a] = IF ok THEN @ + 1 ELSE @]
  /\ UNCHANGED <<hubVars, asideVars, sends_left, request>>
  /\ UNCHANGED <<state, error_count, last_error, metrics, conversation_history, previous_state, hpc, hsleep, spc, ssleep, changes, backoffs, outcome>>

\* _change_state called from outside the runtime's own operations: by the
\* subclass (the only way into waiting_for_response and collaborating) or by
\* a test, as test_state_management does.
ExtChangeState(a, s) ==
  /\ state[a] # s
  /\ state' = [state EXCEPT ![a] = s]
  /\ changes' = [changes EXCEPT ![a] = Chg(state[a], s, "external")]
  /\ UNCHANGED <<hubVars, asideVars, sends_left, request>>
  /\ UNCHANGED <<error_count, last_error, metrics, conversation_history, previous_state, hpc, hsleep, spc, ssleep, tpc, uptime, backoffs, outcome>>

\* CommunicationHub.send_request up to its wait: the observer, the request.
SendRequest(sender, recipient) ==
  /\ request.pc = "idle"
  /\ request' = [pc |-> "waiting", id |-> NewId, recipient |-> recipient, future |-> 0, result |-> 0]
  /\ broadcast_subscribers' = AddObserver(broadcast_subscribers, "request")
  /\ SendIf(TRUE, Message(NewId, sender, recipient, "task_request", MEDIUM, TRUE, 0, NoConv), 0, 0)
  /\ UNCHANGED <<subscribers, subscriber_keys, is_running, processing_task, current, cur_handler, obs_idx, dispatched, second_task>>
  /\ UNCHANGED <<agentVars, asideVars, sends_left>>

\* send_request called again once the call before it has returned, up to its
\* wait.  The observers of the calls before are still in the list; their
\* futures are done, so they set no result any more.
SendRequestAgain(sender, recipient) ==
  /\ request.pc \in {"returned", "timed_out"}
  /\ Cardinality({j \in 1..Len(broadcast_subscribers) : broadcast_subscribers[j] = "request"}) < MaxRequests
  /\ request' = [pc |-> "waiting", id |-> NewId, recipient |-> recipient, future |-> 0, result |-> 0]
  /\ broadcast_subscribers' = AddObserver(broadcast_subscribers, "request")
  /\ SendIf(TRUE, Message(NewId, sender, recipient, "task_request", MEDIUM, TRUE, 0, NoConv), 0, 0)
  /\ UNCHANGED <<subscribers, subscriber_keys, is_running, processing_task, current, cur_handler, obs_idx, dispatched, second_task>>
  /\ UNCHANGED <<agentVars, asideVars, sends_left>>

\* CommunicationHub.send_request called by the plain recipient handler of
\* role sender while a dispatch task awaits that handler, up to the wait.
HandlerSendRequest(sender, recipient) ==
  /\ request.pc = "idle"
  /\ subscribers[sender] = "plain"
  /\ \/ /\ processing_task = "deliver"
        /\ cur_handler = "plain"
        /\ current.recipient = sender
        /\ requester' = "first"
     \/ /\ second_task = "deliver"
        /\ requester' = "second"
  /\ request' = [pc |-> "waiting", id |-> NewId, recipient |-> recipient, future |-> 0, result |-> 0]
  /\ broadcast_subscribers' = AddObserver(broadcast_subscribers, "request")
  /\ SendIf(TRUE, Message(NewId, sender, recipient, "task_request", MEDIUM, TRUE, 0, NoConv), 0, 0)
  /\ UNCHANGED <<subscribers, subscriber_keys, is_running, processing_task, current, cur_handler, obs_idx, dispatched, second_task>>
  /\ UNCHANGED <<agentVars, active_negotiations, max_memory_size, state_change_callbacks, notified, storeVars, call, sends_left>>

\* The future has a result: send_request returns it.
RequestReturn ==
  /\ request.pc = "waiting"
  /\ request.future # 0
  /\ request' = [request EXCEPT !.pc = "returned", !.result = request.future]
  /\ UNCHANGED <<hubVars, agentVars, asideVars, sends_left>>

\* The timeout elapses with the future pending: wait_for cancels the future
\* and send_request returns None (result 0).
RequestTimeout ==
  /\ request.pc = "waiting"
  /\ request.future = 0
  /\ request' = [request EXCEPT !.pc = "timed_out", !.result = 0]
  /\ UNCHANGED <<hubVars, agentVars, asideVars, sends_left>>

\* BaseAgent.add_state_change_callback
AddStateChangeCallback(a, callback) ==
  /\ Len(state_change_callbacks[a]) < MaxCallbacks
  /\ state_change_callbacks' = [state_change_callbacks EXCEPT ![a] = Append(@, callback)]
  /\ UNCHANGED <<hubVars, agentVars, active_negotiations, max_memory_size, notified, requester, storeVars, call, sends_left, request>>

\* A loop that would let the failure of a callback through, for comparison.
CallbackCaughtNever(exc) == FALSE

\* `except Exception` around the call of a state-change callback.
CallbackCaught(exc) == exc = "Exception"

\* The loop over the callbacks of _change_state from callback i on: the calls
\* it makes, in order.  A raise that is not absorbed ends the loop.
RECURSIVE NotifyFrom(_, _, _, _)
NotifyFrom(callbacks, i, old_state, new_state) ==
  IF i > Len(callbacks) THEN <<>>
  ELSE <<[callback |-> i, old |-> old_state, new |-> new_state]>> \o
       (IF callbacks[i] = "raises" /\ ~CallbackCaught("Exception") THEN <<>>
        ELSE NotifyFrom(callbacks, i + 1, old_state, new_state))

\* BaseAgent._change_state(new_state) called on agent a, with callbacks that
\* do not suspend.
ChangeState(a, new_state) ==
  /\ IF state[a] # new_state
     THEN /\ state' = [state EXCEPT ![a] = new_state]
          /\ notified' = [notified EXCEPT ![a] = NotifyFrom(state_change_callbacks[a], 1, state[a], new_state)]
     ELSE /\ state' = state
          /\ notified' = [notified EXCEPT ![a] = <<>>]
  /\ changes' = [changes EXCEPT ![a] = Chg(state[a], new_state, "external")]
  /\ call' = [op |-> "_change_state", arg |-> <<a, new_state>>, result |-> <<>>]
  /\ UNCHANGED <<hubVars, active_negotiations, max_memory_size, state_change_callbacks, requester, storeVars, sends_left, request>>
  /\ UNCHANGED <<error_count, last_error, metrics, conversation_history, previous_state, hpc, hsleep, spc, ssleep, tpc, uptime, backoffs, outcome>>

\* The threads get_context is called on: those of the hub and one just
\* constructed, which holds no message.
Threads == {conversations[c] : c \in DOMAIN conversations} \cup {ConversationThread(EmptyConv, <<"pm", "dev">>)}

\* ConversationThread.get_context(limit) called on one of the threads.
ThreadGetContext(limit) ==
  \E t \in Threads :
  /\ call' = [op |-> "get_context", arg |-> <<t, limit>>, result |-> GetContext(t.messages, limit)]
  /\ UNCHANGED <<hubVars, agentVars, active_negotiations, max_memory_size, state_change_callbacks, notified, requester, storeVars, sends_left, request>>

\* ------------------------------------------------- Message as a pure value
\* Python values of the fields: None, an argument the caller leaves out, the
\* values uuid4 and time.time() make, and three values of metadata: the empty
\* dict, a dict with an entry, a list.
None == "<None>"
Absent == "<absent>"
Uuid4Id == "<uuid4 for id>"
Uuid4Conv == "<uuid4 for conversation_id>"
TimeNow == "<time.time()>"
EmptyDict == "{}"
SomeDict == "{'test_key': 'test_value'}"
SomeList == "['test_key']"

\* isinstance(x, dict)
IsDict(x) == x \in {EmptyDict, SomeDict}

\* The members of the enumerations, each a pair of its class and its value.
AgentRoleValues == {"pm", "dev", "reviewer", "tester", "orchestrator"}
MessageTypeValues == {"task_request", "task_response", "collaboration_request", "status_update", "error_report", "negotiation", "consensus"}
AgentRole(v) == <<"AgentRole", v>>
MessageType(v) == <<"MessageType", v>>
MessagePriority(v) == <<"MessagePriority", v>>

\* member.value
EnumValue(member) == member[2]

\* The dataclass __init__ of Message: an argument left out takes its default.
MessageDefaults(kw) ==
  [kw EXCEPT !.id = IF @ = Absent THEN None ELSE @,
             !.priority = IF @ = Absent THEN MessagePriority(MEDIUM) ELSE @,
             !.timestamp = IF @ = Absent THEN None ELSE @,
             !.metadata = IF @ = Absent THEN EmptyDict ELSE @,
             !.requires_response = IF @ = Absent THEN "False" ELSE @,
             !.conversation_id = IF @ = Absent THEN None ELSE @]

\* Message.__post_init__
PostInit(m) ==
  [m EXCEPT !.timestamp = IF @ = None THEN TimeNow ELSE @,
            !.id = IF @ = None THEN Uuid4Id ELSE @,
            !.conversation_id = IF @ = None THEN Uuid4Conv ELSE @]

\* Message(**kw)
NewMessage(kw) == PostInit(MessageDefaults(kw))

\* Message.to_dict: asdict, the four enumeration fields replaced by values.
ToDict(m) ==
  [m EXCEPT !.sender = EnumValue(@),
            !.recipient = EnumValue(@),
            !.message_type = EnumValue(@),
            !.priority = EnumValue(@)]

\* data.get(key, default)
DictGet(data, key, default) == IF key \in DOMAIN data THEN data[key] ELSE default

\* Message.from_dict
FromDict(data) ==
  LET raw_metadata == DictGet(data, "metadata", None)
      meta == IF IsDict(raw_metadata) THEN raw_metadata ELSE EmptyDict
  IN NewMessage([id |-> data.id,
                 sender |-> AgentRole(data.sender),
                 recipient |-> AgentRole(data.recipient),
                 message_type |-> MessageType(data.message_type),
                 content |-> data.content,
                 priority |-> MessagePriority(data.priority),
                 timestamp |-> data.timestamp,
                 metadata |-> meta,
                 requires_response |-> DictGet(data, "requires_response", "False"),
                 conversation_id |-> DictGet(data, "conversation_id", None)])

\* The keyword arguments callers construct messages with.
MessageInputs ==
  [id : {Absent, "", "msg-1"},
   sender : {AgentRole(v) : v \in AgentRoleValues},
   recipient : {AgentRole("dev")},
   message_type : {MessageType(v) : v \in MessageTypeValues},
   content : {"Test"},
   priority : {MessagePriority(p) : p \in Priorities},
   timestamp : {Absent, "123456.0"},
   metadata : {Absent, None, EmptyDict, SomeDict},
   requires_response : {Absent, "True"},
   conversation_id : {Absent, "", "conv-1"}]

\* The dicts callers hand to from_dict that no to_dict has made: with
\* metadata null, not a dict, or left out like the other optional keys.
DictInputs ==
  [id : {"edge-1"}, sender : {"dev"}, recipient : {"pm"}, message_type : {"task_request"},
   content : {"Test"}, priority : {MEDIUM}, timestamp : {"123456.0"},
   metadata : {None, SomeList, SomeDict}, conversation_id : {None, "", "conv-1"}]
  \cup
  [id : {"edge-2"}, sender : {"dev"}, recipient : {"pm"}, message_type : {"task_request"},
   content : {"Test"}, priority : {MEDIUM}, timestamp : {"123456.0"}]

\* A caller constructs a message from the keyword arguments it holds.
CallMessage ==
  /\ call.op = "kwargs"
  /\ call' = [op |-> "Message", arg |-> call.arg, result |-> NewMessage(call.arg)]
  /\ UNCHANGED <<hubVars, agentVars, active_negotiations, max_memory_size, state_change_callbacks, notified, requester, storeVars, sends_left, request>>

\* A caller serializes the message it has constructed.
CallToDict ==
  /\ call.op = "Message"
  /\ call' = [op |-> "to_dict", arg |-> call.result, result |-> ToDict(call.result)]
  /\ UNCHANGED <<hubVars, agentVars, active_negotiations, max_memory_size, state_change_callbacks, notified, requester, storeVars, sends_left, request>>

\* A caller deserializes the dict to_dict has returned; the log keeps the
\* message that was serialized beside it.
CallFromDictOfToDict ==
  /\ call.op = "to_dict"
  /\ call' = [op |-> "from_dict of to_dict", arg |-> <<call.result, call.arg>>, result |-> FromDict(call.result)]
  /\ UNCHANGED <<hubVars, agentVars, active_negotiations, max_memory_size, state_change_callbacks, notified, requester, storeVars, sends_left, request>>

\* A caller deserializes a dict it holds.
CallFromDict ==
  /\ call.op = "dict"
  /\ call' = [op |-> "from_dict", arg |-> call.arg, result |-> FromDict(call.arg)]
  /\ UNCHANGED <<hubVars, agentVars, active_negotiations, max_memory_size, state_change_callbacks, notified, requester, storeVars, sends_left, request>>

\* The hub's queue, history and conversation map after send_message of each
\* message of msgs in turn.
RECURSIVE SendAll(_, _)
SendAll(hub, msgs) ==
  IF msgs = <<>> THEN hub
  ELSE SendAll([queue |-> QueuePut(hub.queue, AddMessage(Head(msgs))),
                history |-> Append(hub.history, AddMessage(Head(msgs))),
                conversations |-> TrackConversation(hub.conversations, Head(msgs))],
               Tail(msgs))

\* Several send_message calls made by one operation of the hub, which does
\* not suspend between them: a put on the unbounded queue never waits.
SendSeq(msgs) ==
  LET hub == SendAll([queue |-> message_queue, history |-> message_history, conversations |-> conversations], msgs)
  IN /\ message_queue' = hub.queue
     /\ message_history' = hub.history
     /\ conversations' = hub.conversations
     /\ delivery_stats' = Stats(Len(msgs), 0, 0)

\* A broadcast that would go to every subscribed role, for comparison.
BroadcastRecipientsAll(keys, sender) == keys

\* The loop of broadcast_message: the keys of subscribers, in their order,
\* but for the sender.
BroadcastRecipients(keys, sender) == SelectSeq(keys, LAMBDA r : r # sender)

\* CommunicationHub.broadcast_message
BroadcastMessage(sender) ==
  /\ sends_left > 0
  /\ Len(message_queue) < MaxQueue
  /\ sends_left' = sends_left - 1
  /\ LET to == BroadcastRecipients(subscriber_keys, sender)
     IN SendSeq([j \in 1..Len(to) |->
                  [Message(Len(message_history) + j, sender, to[j], "status_update", MEDIUM, FALSE, 0, NoConv)
                     EXCEPT !.broadcast = TRUE]])
  /\ call' = [op |-> "broadcast_message", arg |-> sender, result |-> <<>>]
  /\ UNCHANGED <<subscribers, subscriber_keys, broadcast_subscribers, is_running, processing_task, current, cur_handler, obs_idx, dispatched, second_task>>
  /\ UNCHANGED <<agentVars, active_negotiations, max_memory_size, state_change_callbacks, notified, requester, storeVars, request>>

\* An id that would be the same for every negotiation, for comparison.
NegotiationIdFixed(negs) == 1

\* str(uuid.uuid4()) of start_negotiation: an id no negotiation has.
NegotiationId(negs) == Cardinality(DOMAIN negs) + 1

\* CommunicationHub.start_negotiation
StartNegotiation(participants) ==
  /\ sends_left > 0
  /\ Len(message_queue) < MaxQueue
  /\ sends_left' = sends_left - 1
  /\ LET nid == NegotiationId(active_negotiations)
     IN /\ active_negotiations' =
             [n \in DOMAIN active_negotiations \cup {nid} |->
                IF n = nid THEN [id |-> nid, participants |-> participants, proposals |-> <<>>, status |-> "active"]
                ELSE active_negotiations[n]]
        /\ SendSeq([j \in 1..Len(participants) |->
                     [Message(Len(message_history) + j, "orchestrator", participants[j], "negotiation", MEDIUM, FALSE, 0, NoConv)
                        EXCEPT !.negotiation_id = nid]])
        /\ call' = [op |-> "start_negotiation", arg |-> participants, result |-> nid]
  /\ UNCHANGED <<subscribers, subscriber_keys, broadcast_subscribers, is_running, processing_task, current, cur_handler, obs_idx, dispatched, second_task>>
  /\ UNCHANGED <<agentVars, max_memory_size, state_change_callbacks, notified, requester, storeVars, request>>

\* A producer that sends to the role of an agent once the agent has
\* subscribed, as test_high_volume_messages does.
SendToSubscribed ==
  /\ subscribers["dev"] \in AgentIds
  /\ \E rr \in BOOLEAN : EnvSend("pm", "dev", MEDIUM, rr, 0, NoConv)

\* A producer that sends in the name of the agent's own role to that role,
\* once the agent has subscribed: the responses of the agent come back to it.
SendAmongAgents ==
  /\ subscribers["dev"] \in AgentIds
  /\ \E rr \in BOOLEAN : EnvSend("dev", "dev", MEDIUM, rr, 0, NoConv)

\* ----------------------------------------------------------- InMemoryStore
\* The elements of a list.
Elems(list) == {list[i] : i \in 1..Len(list)}

\* list.remove(x): the list without its first x.
ListRemove(list, x) ==
  LET i == CHOOSE k \in 1..Len(list) : list[k] = x /\ \A j \in 1..(k - 1) : list[j] # x
  IN SubSeq(list, 1, i - 1) \o SubSeq(list, i + 1, Len(list))

\* The entries callers store: [id, memory_type, tags].
MemoryEntries == [id : {"m1", "m2"}, memory_type : MemoryTypes, tags : {<<>>, <<"x">>, <<"x", "y">>}]

\* InMemoryStore.store
MemStore(entry) ==
  /\ memories' = [i \in DOMAIN memories \cup {entry.id} |-> IF i = entry.id THEN entry ELSE memories[i]]
  /\ type_index' = [type_index EXCEPT ![entry.memory_type] = IF entry.id \in Elems(@) THEN @ ELSE Append(@, entry.id)]
  /\ tag_index' = [t \in DOMAIN tag_index \cup Elems(entry.tags) |->
                     LET ids == IF t \in DOMAIN tag_index THEN tag_index[t] ELSE <<>>
                     IN IF t \in Elems(entry.tags) /\ entry.id \notin Elems(ids) THEN Append(ids, entry.id) ELSE ids]
  /\ call' = [op |-> "store", arg |-> <<entry.id>>, result |-> TRUE, before |-> <<call.op, call.arg, call.result>>]
  /\ UNCHANGED <<hubVars, agentVars, active_negotiations, max_memory_size, state_change_callbacks, notified, requester, sends_left, request>>

\* A delete that would report success whatever it found, for comparison.
DeleteReturnsTrue(found) == TRUE

\* The value delete returns: False from line 206, True from line 224.
DeleteReturns(found) == found

\* InMemoryStore.delete
MemDelete(memory_id) ==
  /\ IF memory_id \notin DOMAIN memories
     THEN UNCHANGED <<memories, type_index, tag_index>>
     ELSE LET entry == memories[memory_id]
              \* the tags of the entry whose list holds the id
              held == {t \in Elems(entry.tags) : t \in DOMAIN tag_index /\ memory_id \in Elems(tag_index[t])}
              \* those whose list is empty once the id is removed
              emptied == {t \in held : Len(tag_index[t]) = 1}
          IN /\ memories' = [i \in DOMAIN memories \ {memory_id} |-> memories[i]]
             /\ type_index' = [type_index EXCEPT ![entry.memory_type] =
                                 IF memory_id \in Elems(@) THEN ListRemove(@, memory_id) ELSE @]
             /\ tag_index' = [t \in DOMAIN tag_index \ emptied |->
                                IF t \in held THEN ListRemove(tag_index[t], memory_id) ELSE tag_index[t]]
  /\ call' = [op |-> "delete", arg |-> <<memory_id>>, result |-> DeleteReturns(memory_id \in DOMAIN memories),
              before |-> <<call.op, call.arg, call.result>>]
  /\ UNCHANGED <<hubVars, agentVars, active_negotiations, max_memory_size, state_change_callbacks, notified, requester, sends_left, request>>

\* ------------------------------------------------------------ specification
\* No call yet.
NoCall == [op |-> "none", arg |-> <<>>, result |-> <<>>]

\* The hub, the agents, the memory store and the callers after construction,
\* but for the agents' configured max_memory_size and for the call log.
InitBase ==
  /\ message_queue = <<>>
  /\ subscribers = [r \in Roles |-> "none"]
  /\ subscriber_keys = <<>>
  /\ active_negotiations = <<>>
  /\ state_change_callbacks = [a \in AgentIds |-> <<>>]
  /\ notified = [a \in AgentIds |-> <<>>]
  /\ requester = "none"
  /\ memories = <<>>
  /\ type_index = [t \in MemoryTypes |-> <<>>]
  /\ tag_index = <<>>
  /\ broadcast_subscribers = <<>>
  /\ message_history = <<>>
  /\ conversations = <<>>
  /\ delivery_stats = [total_sent |-> 0, total_delivered |-> 0, total_failed |-> 0]
  /\ is_running = FALSE
  /\ processing_task = "none"
  /\ current = NoMsg
  /\ cur_handler = "none"
  /\ obs_idx = 0
  /\ dispatched = <<>>
  /\ second_task = "none"
  /\ state = [a \in AgentIds |-> "initializing"]
  /\ error_count = [a \in AgentIds |-> 0]
  /\ last_error = [a \in AgentIds |-> FALSE]
  /\ metrics = [a \in AgentIds |-> [messages_sent |-> 0, messages_received |-> 0, tasks_completed |-> 0, tasks_failed |-> 0]]
  /\ conversation_history = [a \in AgentIds |-> <<>>]
  /\ previous_state = [a \in AgentIds |-> "initializing"]
  /\ hpc = [a \in AgentIds |-> "idle"]
  /\ hsleep = [a \in AgentIds |-> 0]
  /\ outcome = [a \in AgentIds |-> "none"]
  /\ spc = [a \in AgentIds |-> "new"]
  /\ ssleep = [a \in AgentIds |-> 0]
  /\ tpc = [a \in AgentIds |-> "no"]
  /\ uptime = [a \in AgentIds |-> 0]
  /\ changes = [a \in AgentIds |-> <<>>]
  /\ backoffs = [a \in AgentIds |-> [prev |-> 0, cur |-> 0]]
  /\ sends_left = MaxSends
  /\ request = [pc |-> "idle", id |-> 0, recipient |-> "none", future |-> 0, result |-> 0]

Init ==
  /\ InitBase
  /\ max_memory_size = [a \in AgentIds |-> MaxMemorySize]
  /\ call = NoCall

\* The dispatch of messages to one agent: producers, the hub's lifecycle, the
\* agent's start (hooks failing or not) and every outcome of its content
\* handler.
Next ==
  \/ HubStart
  \/ HubStop
  \/ \E rr \in BOOLEAN : EnvSend("pm", "dev", MEDIUM, rr, 0, NoConv)
  \/ HubTake
  \/ \E a \in AgentIds, result \in {"", "text"} : AgentHandlerReturn(a, result)
  \/ \E a \in AgentIds : AgentHandlerRaise(a)
  \/ \E a \in AgentIds : AgentBackoffTick(a)
  \/ \E a \in AgentIds : AgentBackoffWake(a)
  \/ \E a \in AgentIds : AgentStart(a)
  \/ \E a \in AgentIds : StartHookReturn(a)
  \/ \E a \in AgentIds : StartHookRaise(a)
  \/ \E a \in AgentIds : StartBackoffTick(a)
  \/ \E a \in AgentIds : StartBackoffWake(a)

Spec == Init /\ [][Next]_vars

\* The agent's state machine: start, stop and state changes made from
\* outside the runtime, interleaved with the dispatch of messages.
NextLife ==
  \/ HubStart
  \/ HubStop
  \/ EnvSend("pm", "dev", MEDIUM, FALSE, 0, NoConv)
  \/ HubTake
  \/ \E a \in AgentIds : AgentHandlerReturn(a, "")
  \/ \E a \in AgentIds : AgentHandlerRaise(a)
  \/ \E a \in AgentIds : AgentBackoffTick(a)
  \/ \E a \in AgentIds : AgentBackoffWake(a)
  \/ \E a \in AgentIds : AgentStart(a)
  \/ \E a \in AgentIds : StartHookReturn(a)
  \/ \E a \in AgentIds : AgentStop(a)
  \/ \E a \in AgentIds, ok \in BOOLEAN : StopCleanupDone(a, ok)
  \/ \E a \in AgentIds, s \in {"idle", "processing", "waiting_for_response", "collaborating"} : ExtChangeState(a, s)

SpecLife == Init /\ [][NextLife]_vars

\* The hub alone: producers sending at every priority to a plain handler.
NextHub ==
  \/ HubStart
  \/ SubscribePlain("dev")
  \/ \E p \in Priorities : EnvSend("pm", "dev", p, FALSE, 0, NoConv)
  \/ HubTake
  \/ \E ok \in BOOLEAN : PlainHandlerDone(ok)

SpecHub == Init /\ [][NextHub]_vars

\* send_request to an agent, beside other messages to the same agent that
\* ask for a response.
NextReq ==
  \/ HubStart
  \/ SubscribeToAll
  \/ MonitorDone
  \/ EnvSend("pm", "dev", MEDIUM, TRUE, 0, NoConv)
  \/ SendRequest("pm", "dev")
  \/ RequestReturn
  \/ RequestTimeout
  \/ HubTake
  \/ \E a \in AgentIds, result \in {"", "text"} : AgentHandlerReturn(a, result)
  \/ \E a \in AgentIds : AgentStart(a)
  \/ \E a \in AgentIds : StartHookReturn(a)

SpecReq == Init /\ [][NextReq]_vars

\* The hub's lifecycle: start and stop, with both outcomes of a stop that
\* meets the loop in its queue wait, around the dispatch to a plain handler.
\* Producers send with high priority while is_running is false and with
\* medium priority otherwise.
NextHubLife ==
  \/ HubStart
  \/ HubStop
  \/ HubStopSwallowed
  \/ LoopResume
  \/ SubscribePlain("dev")
  \/ EnvSend("pm", "dev", IF is_running THEN MEDIUM ELSE HIGH, FALSE, 0, NoConv)
  \/ HubTake
  \/ \E ok \in BOOLEAN : PlainHandlerDone(ok)

SpecHubLife == Init /\ [][NextHubLife]_vars

\* Routing and conversation tracking: a plain handler and an agent subscribe
\* under the same role, producers send with and without a conversation id,
\* and the agent responds.
NextRoute ==
  \/ HubStart
  \/ SubscribePlain("dev")
  \/ \E cid \in {NoConv, EmptyConv} \cup GivenConvs : EnvSend("pm", "dev", MEDIUM, TRUE, 0, cid)
  \/ HubTake
  \/ \E ok \in BOOLEAN : PlainHandlerDone(ok)
  \/ \E a \in AgentIds : AgentStart(a)
  \/ \E a \in AgentIds : StartHookReturn(a)
  \/ \E a \in AgentIds : AgentHandlerReturn(a, "text")

SpecRoute == Init /\ [][NextRoute]_vars

\* Conversation threads: producers send under a given conversation id or
\* under none, the loop dispatches, and callers read the context of a thread.
NextThread ==
  \/ HubStart
  \/ \E cid \in {NoConv} \cup GivenConvs : EnvSend("pm", "dev", MEDIUM, FALSE, 0, cid)
  \/ HubTake
  \/ \E limit \in 0..MaxLimit : ThreadGetContext(limit)

SpecThread == Init /\ [][NextThread]_vars

\* Callers hold keyword arguments for Message or a dict for from_dict.
InitMessage ==
  /\ InitBase
  /\ max_memory_size = [a \in AgentIds |-> MaxMemorySize]
  /\ \/ \E kw \in MessageInputs : call = [op |-> "kwargs", arg |-> kw, result |-> <<>>]
     \/ \E d \in DictInputs : call = [op |-> "dict", arg |-> d, result |-> <<>>]

\* Message as a value: construction, serialization, deserialization.
NextMessage ==
  \/ CallMessage
  \/ CallToDict
  \/ CallFromDictOfToDict
  \/ CallFromDict

SpecMessage == InitMessage /\ [][NextMessage]_vars

\* An agent configured with any max_memory_size from 0 up.
InitMemory ==
  /\ InitBase
  /\ max_memory_size \in [AgentIds -> 0..MaxMemorySize]
  /\ call = NoCall

\* The conversation-history buffer of an agent under each capacity.
NextMemory ==
  \/ HubStart
  \/ EnvSend("pm", "dev", MEDIUM, FALSE, 0, NoConv)
  \/ HubTake
  \/ \E a \in AgentIds : AgentStart(a)
  \/ \E a \in AgentIds : StartHookReturn(a)
  \/ \E a \in AgentIds : AgentHandlerReturn(a, "")

SpecMemory == InitMemory /\ [][NextMemory]_vars

\* The participant lists negotiations are started with.
ParticipantLists == {<<>>, <<"dev">>, <<"dev", "reviewer">>, <<"reviewer", "reviewer">>}

\* Broadcasts and negotiations: handlers subscribe under three roles, and
\* callers broadcast from a subscribed role and from one that is not, and
\* start negotiations.
NextCast ==
  \/ HubStart
  \/ \E r \in Roles : SubscribePlain(r)
  \/ \E sender \in {"pm", "tester"} : BroadcastMessage(sender)
  \/ \E participants \in ParticipantLists : StartNegotiation(participants)
  \/ HubTake
  \/ PlainHandlerDone(TRUE)

SpecCast == Init /\ [][NextCast]_vars

\* A caller making one send_request after the other to an agent that answers
\* or not, each call ending with the response or with the timeout.
NextRequests ==
  \/ HubStart
  \/ SendRequest("pm", "dev")
  \/ SendRequestAgain("pm", "dev")
  \/ RequestReturn
  \/ RequestTimeout
  \/ HubTake
  \/ \E a \in AgentIds, result \in {"", "text"} : AgentHandlerReturn(a, result)
  \/ \E a \in AgentIds : AgentStart(a)
  \/ \E a \in AgentIds : StartHookReturn(a)

SpecRequests == Init /\ [][NextRequests]_vars

\* A hub that is started and never stopped, with an agent whose handler
\* returns or raises.
NextLive ==
  \/ HubStart
  \/ SendToSubscribed
  \/ HubTake
  \/ \E a \in AgentIds : AgentHandlerReturn(a, "text")
  \/ \E a \in AgentIds : AgentHandlerRaise(a)
  \/ \E a \in AgentIds : AgentBackoffTick(a)
  \/ \E a \in AgentIds : AgentBackoffWake(a)
  \/ \E a \in AgentIds : AgentStart(a)
  \/ \E a \in AgentIds : StartHookReturn(a)

\* The event loop runs a task that is ready: the dispatch loop when a message
\* waits in the queue, and the sleep of the backoff, which ends.  That the
\* content handler of an agent terminates is the assumption of the claim.
Fairness ==
  /\ WF_vars(HubTake)
  /\ WF_vars(\E a \in AgentIds : AgentHandlerReturn(a, "text") \/ AgentHandlerRaise(a))
  /\ WF_vars(\E a \in AgentIds : AgentBackoffTick(a))
  /\ WF_vars(\E a \in AgentIds : AgentBackoffWake(a))

SpecLive == Init /\ [][NextLive]_vars /\ Fairness

\* The memory store: entries stored, stored again under the same id with
\* another type or other tags, and deleted.
NextStore ==
  \/ \E entry \in MemoryEntries : MemStore(entry)
  \/ \E memory_id \in {"m1", "m2"} : MemDelete(memory_id)

SpecStore == Init /\ [][NextStore]_vars

\* A plain handler for the developer that returns or raises, messages for
\* the developer and for a role nobody handles, and a monitoring observer
\* registered or not.
NextFail ==
  \/ HubStart
  \/ SubscribePlain("dev")
  \/ SubscribeToAll
  \/ MonitorDone
  \/ \E recipient \in {"dev", "reviewer"} :
       EnvSend("pm", recipient, MEDIUM, FALSE, 0, NoConv)
  \/ HubTake
  \/ \E ok \in BOOLEAN : PlainHandlerDone(ok)

SpecFail == Init /\ [][NextFail]_vars

\* Observers: several monitoring observers that return or raise, a plain
\* handler for the developer that returns or raises, messages for the
\* developer and for a role nobody handles, and the hub stopped at any point.
NextObservers ==
  \/ HubStart
  \/ HubStop
  \/ SubscribePlain("dev")
  \/ SubscribeObserver
  \/ MonitorDone
  \/ MonitorRaise
  \/ \E recipient \in {"dev", "reviewer"} :
       EnvSend("pm", recipient, MEDIUM, FALSE, 0, NoConv)
  \/ HubTake
  \/ \E ok \in BOOLEAN : PlainHandlerDone(ok)

SpecObservers == Init /\ [][NextObservers]_vars

\* Two dispatch tasks: the hub's lifecycle with the stop whose cancellation
\* is lost, a start() that follows it, and both tasks dispatching to a plain
\* handler.
NextLoops ==
  \/ HubStart
  \/ HubStop
  \/ HubStopSwallowed
  \/ LoopResume
  \/ SubscribePlain("dev")
  \/ EnvSend("pm", "dev", IF is_running THEN MEDIUM ELSE HIGH, FALSE, 0, NoConv)
  \/ HubTake
  \/ SecondTake
  \/ \E ok \in BOOLEAN : PlainHandlerDone(ok)
  \/ \E ok \in BOOLEAN : SecondHandlerDone(ok)

SpecLoops == Init /\ [][NextLoops]_vars

\* The state of an agent changed by direct calls of _change_state, as the
\* tests make them, with callbacks registered in between.
NextState ==
  \/ \E a \in AgentIds, callback \in {"returns", "raises"} : AddStateChangeCallback(a, callback)
  \/ \E a \in AgentIds, s \in AgentStates : ChangeState(a, s)

SpecState == Init /\ [][NextState]_vars

\* send_request made from inside a recipient handler: a plain handler of the
\* reviewer that, called for a message, asks the developer and waits; the
\* developer is an agent that answers.  The hub's start, the stop whose
\* cancellation is lost and a start that follows it give the second dispatch
\* task.  A stop() that cancels the handler inside its send_request call is
\* not followed.
NextInside ==
  \/ HubStart
  \/ HubStopSwallowed
  \/ LoopResume
  \/ SubscribePlain("reviewer")
  \/ EnvSend("pm", "reviewer", MEDIUM, FALSE, 0, NoConv)
  \/ HubTake
  \/ SecondTake
  \/ \E ok \in BOOLEAN : PlainHandlerDone(ok)
  \/ \E ok \in BOOLEAN : SecondHandlerDone(ok)
  \/ HandlerSendRequest("reviewer", "dev")
  \/ RequestReturn
  \/ RequestTimeout
  \/ \E a \in AgentIds : AgentStart(a)
  \/ \E a \in AgentIds : StartHookReturn(a)
  \/ \E a \in AgentIds : AgentHandlerReturn(a, "text")

SpecInside == Init /\ [][NextInside]_vars

\* Responses that come back to an agent: a hub that is started and never
\* stopped, an agent whose content handler returns a text or raises and
\* sends nothing itself, and producers whose messages name the agent's role
\* as their sender.
NextEcho ==
  \/ HubStart
  \/ SendAmongAgents
  \/ HubTake
  \/ \E a \in AgentIds : AgentHandlerReturn(a, "text")
  \/ \E a \in AgentIds : AgentHandlerRaise(a)
  \/ \E a \in AgentIds : AgentBackoffTick(a)
  \/ \E a \in AgentIds : AgentBackoffWake(a)
  \/ \E a \in AgentIds : AgentStart(a)
  \/ \E a \in AgentIds : StartHookReturn(a)

SpecEcho == Init /\ [][NextEcho]_vars /\ Fairness

\* start() failing again and again: an agent whose hooks fail until its
\* error budget is exhausted, started anew after each failure, while the hub
\* dispatches messages to its role.
NextRestart ==
  \/ HubStart
  \/ EnvSend("pm", "dev", MEDIUM, FALSE, 0, NoConv)
  \/ HubTake
  \/ \E a \in AgentIds : AgentHandlerReturn(a, "")
  \/ \E a \in AgentIds : AgentStart(a)
  \/ \E a \in AgentIds : StartHookReturn(a)
  \/ \E a \in AgentIds : StartHookRaiseToTheEnd(a)
  \/ \E a \in AgentIds : StartBackoffTick(a)
  \/ \E a \in AgentIds : StartBackoffWake(a)

SpecRestart == Init /\ [][NextRestart]_vars

\* ------------------------------------------------------------------ claims
\* The last entry of a non-empty sequence.
Last(q) == q[Len(q)]

\* The messages a step appends to the message history.
NewMessages == SubSeq(message_history', Len(message_history) + 1, Len(message_history'))

\* C1: whenever the loop dequeues a message, that message has the highest
\* priority among the messages waiting in the queue and, among those of its
\* priority, is the one sent first (ids grow in send order).
C1_PriorityThenFifo ==
  [][Len(dispatched') > Len(dispatched) =>
       LET m == message_history[Last(dispatched')]
       IN \A k \in 1..Len(message_queue) :
            /\ message_queue[k].priority <= m.priority
            /\ message_queue[k].priority = m.priority => m.id <= message_queue[k].id]_vars

\* Witness of the queue holding a lower priority ahead of a higher one.
C1_Case == /\ Len(message_queue) = 2
           /\ message_queue[1].priority < message_queue[2].priority

\* C2: an agent whose handler has failed on every message and whose error
\* count exceeds the retry budget is in state error once the failing dispatch
\* (begun in state idle) has completed, as long as no operation other than
\* dispatch and error handling has changed its state since.
C2_ParkedInError ==
  \A a \in AgentIds :
    (/\ hpc[a] = "idle"
     /\ outcome[a] = "raised"
     /\ metrics[a].tasks_completed = 0
     /\ previous_state[a] = "idle"
     /\ error_count[a] > RetryCount
     /\ changes[a] # <<>>
     /\ Last(changes[a]).by \in {"dispatch", "error"})
    => state[a] = "error"

C4_RestoresPreviousState ==
  [][\A a \in AgentIds :
       /\ (hpc[a] = "idle" /\ hpc'[a] # "idle") => previous_state'[a] = state[a]
       /\ (hpc[a] # "idle" /\ hpc'[a] = "idle") =>
            /\ previous_state'[a] = previous_state[a]
            /\ state'[a] = IF previous_state[a] = "processing" THEN "idle" ELSE previous_state[a]]_vars

\* Witness of C4: a finished dispatch that began in a state other than idle
\* and processing, and restored it.
C4_Case ==
  \E a \in AgentIds :
    /\ hpc[a] = "idle"
    /\ outcome[a] \in {"empty", "raised"}
    /\ previous_state[a] = "waiting_for_response"
    /\ state[a] = "waiting_for_response"
    /\ changes[a] # <<>>
    /\ Last(changes[a]) = [from |-> "idle", to |-> "waiting_for_response", by |-> "dispatch"]

\* C5: no operation of the runtime (dispatch, error handling, stop) changes
\* the state of an agent that is in shutdown.
C5_ShutdownTerminal ==
  \A a \in AgentIds : \A i \in 1..Len(changes[a]) :
    changes[a][i].from = "shutdown" => changes[a][i].by \in {"external", "start"}

\* The edges of the documented state machine.
DocumentedEdge(from, to) ==
  \/ from = "initializing" /\ to = "idle"
  \/ from = "idle" /\ to = "processing"
  \/ from = "processing" /\ to \in {"idle", "waiting_for_response", "collaborating"}
  \/ from \in {"waiting_for_response", "collaborating"} /\ to = "idle"
  \/ to = "error"
  \/ from = "error" /\ to = "idle"
  \/ to = "shutdown"

\* C6: every state change made by start, stop, dispatch or error handling is
\* an edge of the documented state machine.
C6_DocumentedEdgesOnly ==
  \A a \in AgentIds : \A i \in 1..Len(changes[a]) :
    changes[a][i].by # "external" => DocumentedEdge(changes[a][i].from, changes[a][i].to)

\* C7: the step in which the content handler returns counts one completed
\* task and sends exactly one task response (to the original sender, from the
\* agent's role, referencing the original id) when the message requires a
\* response and the result is not empty, and sends nothing otherwise.
C7_OneResponse ==
  [][\A a \in AgentIds :
       (hpc[a] = "handling" /\ hpc'[a] = "idle" /\ outcome'[a] \in {"text", "empty"}) =>
         /\ metrics'[a].tasks_completed = metrics[a].tasks_completed + 1
         /\ metrics'[a].tasks_failed = metrics[a].tasks_failed
         /\ IF current.requires_response /\ outcome'[a] = "text"
            THEN /\ Len(NewMessages) = 1
                 /\ NewMessages[1].response_to = current.id
                 /\ NewMessages[1].sender = RoleOf(a)
                 /\ NewMessages[1].recipient = current.sender
                 /\ NewMessages[1].message_type = "task_response"
                 /\ Last(message_queue') = NewMessages[1]
                 /\ metrics'[a].messages_sent = metrics[a].messages_sent + 1
            ELSE /\ NewMessages = <<>>
                 /\ message_queue' = message_queue
                 /\ metrics'[a].messages_sent = metrics[a].messages_sent]_vars

\* Witness of C7: a task response to a message that required one.
C7_Case ==
  \E a \in AgentIds : \E i \in 1..Len(message_history) :
    /\ message_history[i].message_type = "task_response"
    /\ message_history[i].response_to \in 1..Len(message_history)
    /\ message_history[message_history[i].response_to].requires_response
    /\ metrics[a].tasks_completed >= 1
    /\ outcome[a] = "text"

C10_ReturnsMatchingResponse ==
  /\ request.pc \in {"waiting", "returned", "timed_out"} =>
       /\ request.id \in 1..Len(message_history)
       /\ message_history[request.id].requires_response
       /\ message_history[request.id].recipient = request.recipient
  /\ request.pc = "returned" =>
       /\ request.result \in {dispatched[i] : i \in 1..Len(dispatched)}
       /\ message_history[request.result].sender = request.recipient
       /\ message_history[request.result].response_to = request.id
  /\ request.pc = "timed_out" => request.result = 0 /\ request.future = 0

\* Witness of C10: send_request has returned a response.
C10_Case == request.pc = "returned" /\ request.result # 0

\* Witness of the timeout of send_request.
C10_TimedOut == request.pc = "timed_out"

\* C11: when the loop dequeues a message whose recipient role has no handler,
\* no delivery is counted as made or failed and no agent is called, the
\* message is in the history, and the message goes to the observers: the
\* observers before the first monitoring coroutine get it in that step (a
\* pending send_request it answers is resolved), the loop then awaits that
\* monitor, and after each monitor it goes on to the next one, back to the
\* queue wait only after the last.
C11_UnroutedStillObserved ==
  [][LET m == Head(message_queue)
         monitors == {j \in 1..Len(broadcast_subscribers) : broadcast_subscribers[j] = "monitor"}
         later == {j \in monitors : j > obs_idx}
     IN /\ (Len(dispatched') > Len(dispatched) /\ subscribers[m.recipient] = "none") =>
             /\ delivery_stats' = delivery_stats
             /\ metrics' = metrics /\ hpc' = hpc
             /\ m.id \in 1..Len(message_history) /\ message_history[m.id] = m
             /\ IF monitors = {}
                THEN processing_task' = "wait" /\ current' = NoMsg
                ELSE /\ processing_task' = "broadcast" /\ current' = m
                     /\ obs_idx' \in monitors /\ \A k \in monitors : obs_idx' <= k
             /\ (/\ request.pc = "waiting" /\ request.future = 0
                 /\ m.sender = request.recipient /\ m.response_to = request.id
                 /\ \E j \in 1..Len(broadcast_subscribers) :
                      /\ broadcast_subscribers[j] = "request"
                      /\ \A k \in monitors : j < k)
                => request'.future = m.id
        /\ (processing_task = "broadcast" /\ <<processing_task, obs_idx>>' # <<processing_task, obs_idx>>) =>
             IF later = {}
             THEN processing_task' = "wait" /\ current' = NoMsg
             ELSE /\ processing_task' = "broadcast" /\ current' = current
                  /\ obs_idx' \in later /\ \A k \in later : obs_idx' <= k]_vars

\* Witness of C11: a message for a role without a handler is with a
\* monitoring observer, none of the deliveries counted being its own.
C11_Case ==
  /\ processing_task = "broadcast"
  /\ current # NoMsg
  /\ current.recipient = "pm"
  /\ subscribers["pm"] = "none"
  /\ broadcast_subscribers[obs_idx] = "monitor"
  /\ delivery_stats.total_failed = 0
  /\ delivery_stats.total_delivered = Len(dispatched) - 1

\* C12: a subscription takes the place of whatever handler the role had
\* (start() of an agent leaves the agent as the handler of its role, and a
\* step that changes the subscriptions changes one role, to a handler), and
\* the step that dequeues a message calls the handler then registered for its
\* recipient and no other: an agent that is not that handler receives nothing.
C12_OneHandlerPerRole ==
  [][/\ \A a \in AgentIds :
          (spc[a] # "hooks" /\ spc'[a] = "hooks") => subscribers'[RoleOf(a)] = a
     /\ subscribers' # subscribers =>
          \E r \in Roles :
            /\ subscribers'[r] \notin {"none", subscribers[r]}
            /\ \A q \in Roles \ {r} : subscribers'[q] = subscribers[q]
     /\ Len(dispatched') > Len(dispatched) =>
          LET h == subscribers[Head(message_queue).recipient]
          IN /\ h # "none" => cur_handler' = h /\ processing_task' = "deliver"
             /\ \A a \in AgentIds \ {h} : metrics'[a] = metrics[a] /\ hpc'[a] = hpc[a]
             /\ \A a \in AgentIds \cap {h} :
                  metrics'[a].messages_received = metrics[a].messages_received + 1]_vars

\* Witness of C12: the agent had subscribed and started, a plain handler
\* subscribed under the same role afterwards, and a message for the role is
\* with the plain handler, the agent having received none.
C12_Case ==
  \E a \in AgentIds :
    /\ spc[a] = "returned"
    /\ subscribers[RoleOf(a)] = "plain"
    /\ processing_task = "deliver"
    /\ cur_handler = "plain"
    /\ current.recipient = RoleOf(a)
    /\ metrics[a].messages_received = 0
    /\ hpc[a] = "idle"

\* C13: at most one dispatch task of the hub is alive at any time.
C13_OneDispatchLoop == ~(processing_task # "none" /\ second_task # "none")

\* Witness of the case of C13: stop() has set is_running to false while the
\* loop, its cancellation lost, is about to go on with a message.
C13_Case == ~is_running /\ processing_task = "resume"

\* C14: stop() on an agent that an earlier stop() has already stopped changes
\* nothing: when its cleanup hook is over, metrics.uptime is what the earlier
\* stop() left.
C14_SecondStopChangesNothing ==
  [][\A a \in AgentIds :
       (tpc[a] = "cleanup" /\ tpc'[a] # "cleanup" /\ uptime[a] >= 1 /\ state[a] = "shutdown") =>
         uptime'[a] = uptime[a]]_vars

\* The messages waiting in the queue, in order, are those of q followed by
\* zero or more new ones.
Extends(q, q2) == Len(q) <= Len(q2) /\ SubSeq(q2, 1, Len(q)) = q

\* The hub is stopped: stop() has returned and no dispatch task is alive.
Stopped == ~is_running /\ processing_task = "none" /\ second_task = "none"

\* C15: no step resets the history, the conversation map, the subscriptions
\* or the statistics (they only grow); stop() and start() leave them and the
\* queue as they are; while the hub is stopped the queue keeps its messages
\* in order, new ones going to its tail; and the loop always dequeues the
\* message at the head, so what was queued is dispatched in that order after
\* the next start.
C15_RestartResumes ==
  [][/\ Extends(message_history, message_history')
     /\ \A c \in DOMAIN conversations :
          c \in DOMAIN conversations' /\ Extends(conversations[c].messages, conversations'[c].messages)
     /\ \A r \in Roles : subscribers[r] # "none" => subscribers'[r] # "none"
     /\ delivery_stats'.total_sent >= delivery_stats.total_sent
     /\ delivery_stats'.total_delivered >= delivery_stats.total_delivered
     /\ delivery_stats'.total_failed >= delivery_stats.total_failed
     /\ is_running' # is_running =>
          /\ message_queue' = message_queue
          /\ message_history' = message_history
          /\ conversations' = conversations
          /\ subscribers' = subscribers
          /\ delivery_stats' = delivery_stats
     /\ Stopped => Extends(message_queue, message_queue') /\ dispatched' = dispatched
     /\ Len(dispatched') > Len(dispatched) =>
          /\ dispatched' = Append(dispatched, Head(message_queue).id)
          /\ message_queue' = Tail(message_queue)]_vars

\* Witness of C15: the hub has run, stopped and started again, and the loop
\* has dispatched in the order they were sent a message sent while it ran
\* (medium priority) and a later one sent while it was stopped (high).
C15_Case ==
  /\ is_running
  /\ dispatched = <<1, 2>>
  /\ message_history[1].priority = MEDIUM
  /\ message_history[2].priority = HIGH
  /\ delivery_stats.total_delivered + delivery_stats.total_failed = 1
  /\ processing_task = "deliver"

\* C16: stop() leaves a handler or an observer the loop is awaiting as it
\* is: the loop still holds the message and goes on with it.
C16_StopSparesDispatch ==
  [][(is_running /\ ~is_running' /\ processing_task \in {"deliver", "broadcast"}) =>
       /\ processing_task' = processing_task
       /\ current' = current
       /\ \A a \in AgentIds : hpc'[a] = hpc[a]]_vars

\* Witness of the case of C16: the hub is stopped and the last dispatch of an
\* agent was cut short, its message counted neither delivered nor failed.
C16_Case ==
  \E a \in AgentIds :
    /\ ~is_running
    /\ outcome[a] = "cancelled"
    /\ delivery_stats.total_delivered + delivery_stats.total_failed < Len(dispatched)

\* C17: once start() of an agent has returned, whenever no dispatch is in
\* flight (the last one not cut short by a stop of the hub) and the error
\* budget is not exhausted, the agent is idle (stop() of the agent is never
\* called in the specification this is checked under).
C17_IdleAfterStart ==
  \A a \in AgentIds :
    (/\ spc[a] = "returned"
     /\ hpc[a] = "idle"
     /\ outcome[a] # "cancelled"
     /\ error_count[a] <= RetryCount) => state[a] = "idle"

\* C18: a failing step of start() adds one to error_count and records the
\* failure; the call then ends by raising, after the backoff if there is
\* one; start() returns only from hooks that did not fail, and then counts
\* no error.
C18_StartFailureRaised ==
  [][\A a \in AgentIds :
       /\ (spc[a] = "hooks" /\ spc'[a] \in {"backoff", "raised"}) =>
            /\ error_count'[a] = error_count[a] + 1
            /\ last_error'[a] = TRUE
       /\ (spc[a] = "backoff" /\ spc'[a] # "backoff") => spc'[a] = "raised"
       /\ (spc[a] # "returned" /\ spc'[a] = "returned") =>
            /\ spc[a] = "hooks"
            /\ error_count'[a] = error_count[a]
            /\ state'[a] = "idle"]_vars

\* Witness of C18: start() has raised after a failed hook and its backoff.
C18_Case ==
  \E a \in AgentIds :
    /\ spc[a] = "raised"
    /\ error_count[a] >= 1
    /\ last_error[a]
    /\ backoffs[a].cur >= 1
    /\ metrics[a].tasks_failed = 0

\* C19: stop() of an agent ends by returning, and when it returns the agent
\* is in state shutdown, unless a call from outside the runtime (a state
\* change by the subclass, a new start()) has changed the state since.
C19_ShutdownWhenStopReturns ==
  [][\A a \in AgentIds :
       (tpc[a] = "cleanup" /\ tpc'[a] # "cleanup") =>
         /\ tpc'[a] = "returned"
         /\ \/ state'[a] = "shutdown"
            \/ changes'[a] # <<>> /\ Last(changes'[a]).by \in {"external", "start"}]_vars

\* C20: every thread of the conversation map is stored under its own id, is
\* active, holds its messages in the order they were sent, and every message
\* it holds has the thread's id as its conversation_id; every message sent is
\* in exactly the thread of its conversation id.
C20_ThreadsKeyedByConversation ==
  /\ \A c \in DOMAIN conversations :
       LET t == conversations[c]
       IN /\ t.id = c
          /\ t.status = "active"
          /\ t.messages # <<>>
          /\ \A i \in 1..Len(t.messages) :
               /\ t.messages[i] \in 1..Len(message_history)
               /\ message_history[t.messages[i]].conversation_id = c
               /\ i > 1 => t.messages[i - 1] < t.messages[i]
          /\ t.participants = <<message_history[t.messages[1]].sender, message_history[t.messages[1]].recipient>>
  /\ \A n \in 1..Len(message_history) :
       LET c == message_history[n].conversation_id
       IN /\ c \in DOMAIN conversations
          /\ \E i \in 1..Len(conversations[c].messages) : conversations[c].messages[i] = n
  /\ \A k \in 1..Len(message_queue) :
       message_queue[k] = message_history[message_queue[k].id]

\* Witness of C20: a thread holding two messages sent under one id, and a
\* thread made for a response of the agent.
C20_Case ==
  /\ \E c \in GivenConvs : c \in DOMAIN conversations /\ Len(conversations[c].messages) = 2
  /\ \E n \in 1..Len(message_history) :
       /\ message_history[n].message_type = "task_response"
       /\ PostInitConv(n) \in DOMAIN conversations

\* The smaller of two numbers.
Min(x, y) == IF x <= y THEN x ELSE y

\* C21: get_context(limit) on a thread of N messages returns the last
\* min(N, limit) of them, in the order of the thread, and leaves the
\* conversation map as it is.
C21_ContextIsLastMin ==
  [][(call' # call /\ call'.op = "get_context") =>
       LET msgs == call'.arg[1].messages
           k == Min(Len(msgs), call'.arg[2])
       IN /\ call'.result = SubSeq(msgs, Len(msgs) - k + 1, Len(msgs))
          /\ conversations' = conversations]_vars

\* Witness of the case of C21: limit 0 on a thread that holds two messages.
C21_Case ==
  /\ call.op = "get_context"
  /\ call.arg[2] = 0
  /\ Len(call.arg[1].messages) = 2

\* C22: from_dict(to_dict(m)) equals m in every field, and the dict carries
\* the enumeration fields as their values.
C22_RoundTrip ==
  call.op = "from_dict of to_dict" =>
    /\ call.result = call.arg[2]
    /\ call.arg[1].sender \in AgentRoleValues
    /\ call.arg[1].recipient \in AgentRoleValues
    /\ call.arg[1].message_type \in MessageTypeValues
    /\ call.arg[1].priority \in Priorities

\* Witness of the case of C22: a message made with an empty id and a null
\* metadata has gone through to_dict and from_dict.
C22_Case ==
  /\ call.op = "from_dict of to_dict"
  /\ call.arg[2].id = ""
  /\ call.arg[2].metadata = None
  /\ call.result.id = ""

\* C23: every message, constructed directly or made by from_dict, has a
\* mapping as its metadata, the empty one when the input was missing or null.
C23_MetadataIsMapping ==
  call.op \in {"Message", "from_dict", "from_dict of to_dict"} =>
    /\ IsDict(call.result.metadata)
    /\ (call.op = "Message" /\ call.arg.metadata \in {Absent, None}) => call.result.metadata = EmptyDict
    /\ (call.op = "from_dict" /\ DictGet(call.arg, "metadata", None) = None) => call.result.metadata = EmptyDict

\* Witness of the case of C23: a message constructed with null metadata.
C23_Case ==
  /\ call.op = "Message"
  /\ call.arg.metadata = None

\* C24: a dispatch to an agent leaves in its conversation-history buffer the
\* last max_memory_size of the messages the buffer held followed by the one
\* dispatched, all of them when they are fewer, in the order received.
C24_BufferBounded ==
  [][\A a \in AgentIds :
       metrics'[a].messages_received > metrics[a].messages_received =>
         LET h1 == Append(conversation_history[a], Head(message_queue).id)
             k == Min(Len(h1), max_memory_size[a])
         IN conversation_history'[a] = SubSeq(h1, Len(h1) - k + 1, Len(h1))]_vars

\* Witness of the case of C24: an agent of capacity 0 holds two messages.
C24_Case ==
  \E a \in AgentIds :
    /\ max_memory_size[a] = 0
    /\ Len(conversation_history[a]) = 2

\* C25: broadcast_message(sender) enqueues, behind what the queue holds,
\* exactly one message for each role that has a handler other than the
\* sender's role, each from the sender and marked as a broadcast, and none
\* for the sender.
C25_OnePerSubscribedRole ==
  [][(call'.op = "broadcast_message" /\ (call.op # "broadcast_message" \/ call' # call \/ message_history' # message_history)) =>
       LET sender == call'.arg
           new == NewMessages
           targets == {r \in Roles : subscribers[r] # "none" /\ r # sender}
       IN /\ Len(new) = Cardinality(targets)
          /\ {new[j].recipient : j \in 1..Len(new)} = targets
          /\ \A j \in 1..Len(new) :
               /\ new[j].sender = sender
               /\ new[j].recipient # sender
               /\ new[j].broadcast
          /\ message_queue' = message_queue \o new]_vars

\* Witness of C25: a broadcast from a subscribed role pm has put a message
\* for each of the two other subscribed roles at the tail of the queue.
C25_Case ==
  /\ call.op = "broadcast_message"
  /\ call.arg = "pm"
  /\ \A r \in Roles : subscribers[r] # "none"
  /\ Len(message_queue) >= 2
  /\ Last(message_queue).broadcast
  /\ message_queue[Len(message_queue) - 1].broadcast
  /\ Last(message_queue).recipient # message_queue[Len(message_queue) - 1].recipient

\* C26: start_negotiation stores an active session with no proposal under an
\* id no session had and sends one notice carrying that id for each entry of
\* the participant list, in order; no step removes or changes a session.
C26_NegotiationStaysActive ==
  [][/\ \A n \in DOMAIN active_negotiations :
          n \in DOMAIN active_negotiations' /\ active_negotiations'[n] = active_negotiations[n]
     /\ \A n \in DOMAIN active_negotiations' :
          /\ active_negotiations'[n].id = n
          /\ active_negotiations'[n].status = "active"
          /\ active_negotiations'[n].proposals = <<>>
     /\ (call'.op = "start_negotiation" /\ active_negotiations' # active_negotiations) =>
          LET nid == call'.result
              ps == call'.arg
              new == NewMessages
          IN /\ nid \notin DOMAIN active_negotiations
             /\ DOMAIN active_negotiations' = DOMAIN active_negotiations \cup {nid}
             /\ active_negotiations'[nid].participants = ps
             /\ Len(new) = Len(ps)
             /\ \A j \in 1..Len(ps) :
                  /\ new[j].recipient = ps[j]
                  /\ new[j].message_type = "negotiation"
                  /\ new[j].negotiation_id = nid
             /\ message_queue' = message_queue \o new]_vars

\* Witness of C26: two negotiations are stored, and the notice of the first
\* has been dispatched to the handler of its participant.
C26_Case ==
  /\ Cardinality(DOMAIN active_negotiations) = 2
  /\ \E i \in 1..Len(dispatched) : message_history[dispatched[i]].negotiation_id = 1
  /\ delivery_stats.total_delivered >= 1

\* The observers send_request has registered.
RequestObservers(observers) == {j \in 1..Len(observers) : observers[j] = "request"}

\* C27: no step removes or replaces an observer; a send_request call adds
\* exactly one observer, which is in the list when the call returns on
\* either path; and the observers registered by send_request are as many as
\* the calls made.
C27_ObserverNeverRemoved ==
  [][/\ Extends(broadcast_subscribers, broadcast_subscribers')
     /\ (request.pc # "waiting" /\ request'.pc = "waiting") =>
          broadcast_subscribers' = Append(broadcast_subscribers, "request")
     /\ (request.pc = "waiting" /\ request'.pc \in {"returned", "timed_out"}) =>
          /\ broadcast_subscribers' = broadcast_subscribers
          /\ RequestObservers(broadcast_subscribers') # {}
     /\ Cardinality(RequestObservers(broadcast_subscribers')) =
          Cardinality({n \in 1..Len(message_history') : message_history'[n].message_type = "task_request"})]_vars

\* Witness of C27: two calls have been made, the first answered and the
\* second timed out, and two observers are registered.
C27_Case ==
  /\ request.pc = "timed_out"
  /\ Cardinality(RequestObservers(broadcast_subscribers)) = 2
  /\ \E n \in 1..Len(message_history) : message_history[n].response_to = 1

\* C28: while the hub runs, every message sent is eventually dequeued, no
\* message is dequeued twice, and once the producers have sent their
\* MaxSends messages to the subscribed agent its messages_received reaches
\* MaxSends and stays there.
C28_EveryMessageDispatchedOnce ==
  /\ [](\A i, j \in 1..Len(dispatched) : dispatched[i] = dispatched[j] => i = j)
  /\ [](\A a \in AgentIds : metrics[a].messages_received <= MaxSends)
  /\ \A n \in 1..(2 * MaxSends) :
       (is_running /\ Len(message_history) >= n) ~> (\E i \in 1..Len(dispatched) : dispatched[i] = n)
  /\ (is_running /\ sends_left = 0) ~> (\A a \in AgentIds : metrics[a].messages_received = MaxSends)

\* Witness of C28: every message sent, the responses of the agent among
\* them, has been dispatched, and the agent has received all MaxSends
\* messages of the producers.
C28_Case ==
  /\ is_running
  /\ sends_left = 0
  /\ Len(message_history) > MaxSends
  /\ Len(dispatched) = Len(message_history)
  /\ \A a \in AgentIds : metrics[a].messages_received = MaxSends

\* C29: delete of an id the store does not hold returns false and leaves the
\* entries, the type index and the tag index as they are.
C29_DeleteMissingIsNoOp ==
  [][(call'.op = "delete" /\ call'.arg[1] \notin DOMAIN memories) =>
       /\ call'.result = FALSE
       /\ memories' = memories
       /\ type_index' = type_index
       /\ tag_index' = tag_index]_vars

\* Witness of C29: an entry was deleted and is deleted again, while the store
\* holds another entry under one of its tags.
C29_Case ==
  /\ call.op = "delete"
  /\ call.result = FALSE
  /\ call.before[1] = "delete"
  /\ call.before[2] = call.arg
  /\ call.before[3] = TRUE
  /\ call.arg[1] \notin DOMAIN memories
  /\ memories # <<>>
  /\ DOMAIN tag_index # {}

\* C30: when the recipient handler the loop awaits ends without the message
\* being counted as delivered, that is by raising, total_failed grows by
\* one, the message is put neither into the queue nor into the history
\* again, each observer is called for it (the loop awaits the first
\* monitoring observer with that message), and with no observer the loop is
\* back at its queue wait.
C30_FailureCountedNotRetried ==
  [][(/\ processing_task = "deliver"
      /\ processing_task' # "deliver"
      /\ delivery_stats'.total_delivered = delivery_stats.total_delivered) =>
       /\ delivery_stats'.total_failed = delivery_stats.total_failed + 1
       /\ delivery_stats'.total_sent = delivery_stats.total_sent
       /\ message_queue' = message_queue
       /\ message_history' = message_history
       /\ dispatched' = dispatched
       /\ IF \E j \in 1..Len(broadcast_subscribers) : broadcast_subscribers[j] = "monitor"
          THEN /\ processing_task' = "broadcast"
               /\ current' = current
               /\ broadcast_subscribers[obs_idx'] = "monitor"
          ELSE /\ processing_task' = "wait"
               /\ current' = NoMsg]_vars

\* Witness of C30: the handler has failed on the first message, the loop has
\* gone on to the second, on which it failed again, and the observer is being
\* called for the second.
C30_Case ==
  /\ delivery_stats.total_failed = 2
  /\ delivery_stats.total_delivered = 0
  /\ dispatched = <<1, 2>>
  /\ processing_task = "broadcast"
  /\ current.id = 2

\* The observers registered at index i or later that are coroutines: the
\* ones the loop suspends in.
Awaited(i) == {j \in i..Len(broadcast_subscribers) : broadcast_subscribers[j] = "monitor"}

\* The step goes from the observer call the loop is suspended in to the next
\* observer in registration order with the same message or, none being left,
\* to the queue wait when the hub is running; "from" is the index the next
\* observer is looked for from.
ObserversGoOn(from, m) ==
  IF Awaited(from) = {}
  THEN is_running' => processing_task' = "wait"
  ELSE /\ processing_task' = "broadcast"
       /\ current' = m
       /\ obs_idx' \in Awaited(from)
       /\ \A j \in Awaited(from) : obs_idx' <= j

\* C31: for every dispatched message the loop calls every observer in
\* registration order and after the recipient handler.  The step that
\* dequeues a message for a role without a handler, and the step that ends
\* the call of the recipient handler, go on to the first observer with that
\* message; the step that ends the call of an observer, by a return or by a
\* raise, goes on to the next observer with that message; and the loop is at
\* its queue wait once none is left.  An observer is never called while the
\* recipient handler of the message is still to be called.
C31_EveryObserverInOrder ==
  [][/\ (dispatched' # dispatched /\ processing_task' # "deliver") =>
          ObserversGoOn(1, message_history[Last(dispatched')])
     /\ (processing_task = "deliver" /\ processing_task' # "deliver") =>
          ObserversGoOn(1, current)
     /\ (processing_task = "broadcast" /\ <<processing_task, obs_idx>>' # <<processing_task, obs_idx>>) =>
          ObserversGoOn(obs_idx + 1, current)
     /\ (processing_task' = "broadcast" /\ processing_task # "broadcast") =>
          \/ processing_task = "deliver"
          \/ dispatched' # dispatched /\ ~HasHandler(current'.recipient)]_vars

\* Witness of C31: the handler failed on the first message, the first
\* observer has been called for it, and the loop is calling the second.
C31_Case ==
  /\ is_running
  /\ Len(broadcast_subscribers) = 2
  /\ delivery_stats.total_failed = 1
  /\ processing_task = "broadcast"
  /\ current.id = 1
  /\ obs_idx = 2

\* The scope in which C31 is looked at apart from stop(): the hub is not
\* stopped by the step.
C31_WhileRunning ==
  [][(is_running /\ is_running') =>
       /\ (dispatched' # dispatched /\ processing_task' # "deliver") =>
            ObserversGoOn(1, message_history[Last(dispatched')])
       /\ (processing_task = "deliver" /\ processing_task' # "deliver") =>
            ObserversGoOn(1, current)
       /\ (processing_task = "broadcast" /\ <<processing_task, obs_idx>>' # <<processing_task, obs_idx>>) =>
            ObserversGoOn(obs_idx + 1, current)]_vars

\* The first task holds a dequeued message: it awaits the recipient handler
\* (an agent's backoff sleep included) or an observer.
InFlight == processing_task \in {"deliver", "broadcast"}

\* C32: a hub dispatches at most one message at a time, and while the call
\* of a recipient handler or of an observer for one message has not ended no
\* other message is dequeued.
C32_HeadOfLineBlocking ==
  /\ [](~(InFlight /\ second_task = "deliver"))
  /\ [][(InFlight \/ second_task = "deliver") =>
          (dispatched' = dispatched /\ Len(message_queue') >= Len(message_queue))]_vars

\* Witness of C32: two messages are in flight at once, one in each task.
C32_Case ==
  /\ processing_task = "deliver"
  /\ current.id = 1
  /\ second_task = "deliver"
  /\ dispatched = <<1, 2>>

\* The number of messages the threads whose ids are in ids hold together.
RECURSIVE HeldIn(_, _)
HeldIn(convs, ids) ==
  IF ids = {} THEN 0
  ELSE LET c == CHOOSE x \in ids : TRUE
       IN Len(convs[c].messages) + HeldIn(convs, ids \ {c})

\* C33: total_sent, the length of the message history and the number of
\* messages the threads hold together are equal in every state; the history
\* only grows at its end; and a send puts exactly the message sent at the
\* end of the history, adds one to total_sent, and puts the message at the
\* end of the thread of its conversation id, every other thread keeping its
\* messages.
C33_SendAppendsEverywhere ==
  /\ [](/\ delivery_stats.total_sent = Len(message_history)
        /\ HeldIn(conversations, DOMAIN conversations) = Len(message_history))
  /\ [][/\ Extends(message_history, message_history')
        /\ Len(message_history') <= Len(message_history) + 1
        /\ Len(message_history') = Len(message_history) + 1 =>
             LET m == Last(message_history')
                 c == m.conversation_id
             IN /\ m.id = Len(message_history')
                /\ delivery_stats'.total_sent = delivery_stats.total_sent + 1
                /\ Last(message_queue') = m
                /\ c \in DOMAIN conversations'
                /\ Last(conversations'[c].messages) = m.id
                /\ Len(conversations'[c].messages) =
                     (IF c \in DOMAIN conversations THEN Len(conversations[c].messages) ELSE 0) + 1
                /\ \A d \in DOMAIN conversations : d # c => conversations'[d] = conversations[d]
                /\ DOMAIN conversations' = DOMAIN conversations \cup {c}]_vars

\* Witness of C33: three messages sent, two of them under one conversation
\* id chosen by the caller and one, a response of the agent, in a thread of
\* its own.
C33_Case ==
  /\ delivery_stats.total_sent = 3
  /\ \E c \in GivenConvs : c \in DOMAIN conversations /\ Len(conversations[c].messages) = 2
  /\ Cardinality(DOMAIN conversations) = 2
  /\ message_history[3].message_type = "task_response"

\* C34: a _change_state call that asks for another state than the current
\* one sets the state and calls each registered callback once, in
\* registration order, with the old and the new state, whether callbacks
\* before it raised or not; a call that asks for the current state leaves the
\* state as it is and calls no callback.
C34_CallbacksOncePerChange ==
  [][(call'.op = "_change_state" /\ (call' # call \/ notified' # notified \/ state' # state)) =>
       LET a == call'.arg[1]
           new_state == call'.arg[2]
           callbacks == state_change_callbacks[a]
       IN IF state[a] = new_state
          THEN /\ state' = state
               /\ notified'[a] = <<>>
          ELSE /\ state'[a] = new_state
               /\ Len(notified'[a]) = Len(callbacks)
               /\ \A i \in 1..Len(callbacks) :
                    notified'[a][i] = [callback |-> i, old |-> state[a], new |-> new_state]]_vars

\* Witness of C34: two callbacks are registered, the first of which raises,
\* and the latest call changed the state from processing to idle and called
\* both.
C34_Case ==
  \E a \in AgentIds :
    /\ state_change_callbacks[a] = <<"raises", "returns">>
    /\ state[a] = "idle"
    /\ notified[a] = <<[callback |-> 1, old |-> "processing", new |-> "idle"],
                       [callback |-> 2, old |-> "processing", new |-> "idle"]>>

\* A second witness of C34: with a callback registered, a call asked for the
\* state the agent was in and called nothing.
C34_SameState ==
  \E a \in AgentIds :
    /\ state_change_callbacks[a] # <<>>
    /\ call.op = "_change_state"
    /\ call.arg = <<a, state[a]>>
    /\ changes[a] = <<>>
    /\ notified[a] = <<>>

\* C35: whenever no dispatch is in flight for an agent, its messages_received
\* equals tasks_completed + tasks_failed; error_count is at least
\* tasks_failed; and error_count never goes down.
C35_CountersBalance ==
  /\ [](\A a \in AgentIds :
          /\ hpc[a] = "idle" =>
               metrics[a].messages_received = metrics[a].tasks_completed + metrics[a].tasks_failed
          /\ error_count[a] >= metrics[a].tasks_failed)
  /\ [][\A a \in AgentIds : error_count'[a] >= error_count[a]]_vars

\* Witness of C35: no dispatch is in flight for an agent whose last dispatch
\* was cut short by stop() of the hub, and the agent has received one message
\* more than it has completed or failed.
C35_Case ==
  \E a \in AgentIds :
    /\ hpc[a] = "idle"
    /\ outcome[a] = "cancelled"
    /\ metrics[a].messages_received = metrics[a].tasks_completed + metrics[a].tasks_failed + 1

\* The step-by-step reading of C35 for dispatches that run to their end: the
\* step that begins a dispatch adds one to messages_received, and the
\* dispatch adds one to exactly one of tasks_completed and tasks_failed
\* before it ends.
C35_EachDispatchCountedOnce ==
  [][\A a \in AgentIds :
       /\ (hpc[a] = "idle" /\ hpc'[a] # "idle") =>
            /\ metrics'[a].messages_received = metrics[a].messages_received + 1
            /\ metrics'[a].tasks_completed = metrics[a].tasks_completed
            /\ metrics'[a].tasks_failed = metrics[a].tasks_failed
       /\ (hpc[a] # "idle" /\ hpc'[a] = "idle") =>
            /\ metrics'[a].messages_received = metrics[a].messages_received
            /\ metrics'[a].messages_received = metrics'[a].tasks_completed + metrics'[a].tasks_failed
       /\ hpc'[a] = hpc[a] =>
            /\ metrics'[a].messages_received = metrics[a].messages_received
            /\ metrics'[a].tasks_completed = metrics[a].tasks_completed
            /\ metrics'[a].tasks_failed = metrics[a].tasks_failed]_vars

\* total_delivered + total_failed of the hub.
Settled(stats) == stats.total_delivered + stats.total_failed

\* C36: total_delivered + total_failed never exceeds total_sent and counts
\* the dispatched messages whose recipient role had a handler when they were
\* dequeued.  A dequeue goes on to a handler call exactly when the role has
\* a handler; the end of each handler call adds one to exactly one of the
\* two counters; and no other step (a dequeue for a role without a handler,
\* the call of an observer, its failure) changes either.
C36_OneCountPerHandledDispatch ==
  /\ [](Settled(delivery_stats) <= delivery_stats.total_sent)
  /\ [][/\ dispatched' # dispatched =>
             (processing_task' = "deliver" <=> HasHandler(message_history[Last(dispatched')].recipient))
        /\ (processing_task = "deliver" /\ processing_task' # "deliver") =>
             /\ Settled(delivery_stats') = Settled(delivery_stats) + 1
             /\ delivery_stats'.total_delivered >= delivery_stats.total_delivered
             /\ delivery_stats'.total_failed >= delivery_stats.total_failed
        /\ (processing_task # "deliver" \/ processing_task' = "deliver") =>
             /\ delivery_stats'.total_delivered = delivery_stats.total_delivered
             /\ delivery_stats'.total_failed = delivery_stats.total_failed]_vars

\* Witness of C36: two messages were dequeued for the agent, which received
\* both; the hub was stopped during the second call, and one message only is
\* counted.
C36_Case ==
  \E a \in AgentIds :
    /\ ~is_running
    /\ Len(dispatched) = 2
    /\ metrics[a].messages_received = 2
    /\ outcome[a] = "cancelled"
    /\ Settled(delivery_stats) = 1

\* C36 for the steps that do not stop the hub.
C36_WhileRunning ==
  /\ [](Settled(delivery_stats) <= delivery_stats.total_sent)
  /\ [][(is_running /\ is_running') =>
        /\ dispatched' # dispatched =>
             (processing_task' = "deliver" <=> HasHandler(message_history[Last(dispatched')].recipient))
        /\ (processing_task = "deliver" /\ processing_task' # "deliver") =>
             /\ Settled(delivery_stats') = Settled(delivery_stats) + 1
             /\ delivery_stats'.total_delivered >= delivery_stats.total_delivered
             /\ delivery_stats'.total_failed >= delivery_stats.total_failed
        /\ (processing_task # "deliver" \/ processing_task' = "deliver") =>
             /\ delivery_stats'.total_delivered = delivery_stats.total_delivered
             /\ delivery_stats'.total_failed = delivery_stats.total_failed]_vars

\* A send_request call made by a recipient handler is waiting.
WaitingInside == requester # "none" /\ request.pc = "waiting"

\* C37: a send_request call made from inside a recipient handler is never
\* resolved: its future gets no result and the call never returns a
\* response; and while it waits the hub dequeues no message and counts none
\* as delivered or failed.
C37_NeverResolvedInside ==
  /\ [](WaitingInside => request.future = 0)
  /\ [](requester # "none" => request.pc # "returned")
  /\ [][WaitingInside =>
          /\ dispatched' = dispatched
          /\ delivery_stats'.total_delivered = delivery_stats.total_delivered
          /\ delivery_stats'.total_failed = delivery_stats.total_failed]_vars

\* Witness of C37: the call made by the handler the second task awaits has
\* returned the response to its request.
C37_Case ==
  /\ requester = "second"
  /\ second_task = "deliver"
  /\ request.pc = "returned"
  /\ request.result # 0
  /\ message_history[request.result].response_to = request.id

\* C37 with one dispatch task: the call made by the handler the only task
\* awaits ends by its timeout, and nothing is dequeued while it waits.
C37_OneTask ==
  /\ []((requester = "first" /\ second_task = "none") =>
          /\ request.future = 0
          /\ request.pc \in {"waiting", "timed_out"})
  /\ [][(WaitingInside /\ requester = "first" /\ second_task = "none") =>
          /\ dispatched' = dispatched
          /\ delivery_stats'.total_delivered = delivery_stats.total_delivered
          /\ delivery_stats'.total_failed = delivery_stats.total_failed
          /\ request'.pc \in {"waiting", "timed_out"}]_vars

\* A witness of the case of C37_OneTask: the call of the handler the only
\* task awaits has timed out with its request still in the queue.
C37_TimedOutInside ==
  /\ requester = "first"
  /\ second_task = "none"
  /\ request.pc = "timed_out"
  /\ processing_task = "deliver"
  /\ \E k \in 1..Len(message_queue) : message_queue[k].id = request.id

\* The messages _send_response builds.
IsResponse(m) == m.message_type \in {"task_response", "error_report"}

\* C38: every response or error report an agent sends has requires_response
\* false; the dispatch of such a message to an agent makes the agent send
\* nothing; the messages ever sent are at most the producers' MaxSends and
\* one response to each; and while the hub runs the queue is empty again and
\* again, and for good once the producers have sent their last message.
C38_ResponsesEndTheExchange ==
  /\ [](\A n \in 1..Len(message_history) :
          IsResponse(message_history[n]) => ~message_history[n].requires_response)
  /\ [][(processing_task = "deliver" /\ IsResponse(current)) =>
          /\ \A i \in 1..Len(NewMessages) : ~IsResponse(NewMessages[i])
          /\ \A a \in AgentIds : metrics'[a].messages_sent = metrics[a].messages_sent]_vars
  /\ [](Len(message_history) <= 2 * MaxSends)
  /\ is_running ~> (message_queue = <<>>)
  /\ (is_running /\ sends_left = 0) ~> [](message_queue = <<>>)

\* Witness of C38: the agent has received a response of its own and an error
\* report of its own, has answered neither, and the queue is empty.
C38_Case ==
  /\ is_running
  /\ message_queue = <<>>
  /\ processing_task = "wait"
  /\ Len(message_history) = 2 * MaxSends
  /\ Len(dispatched) = 2 * MaxSends
  /\ \E n \in 1..Len(message_history) : message_history[n].message_type = "task_response"
  /\ \E n \in 1..Len(message_history) : message_history[n].message_type = "error_report"
  /\ \A a \in AgentIds : metrics[a].messages_received = 2 * MaxSends /\ metrics[a].messages_sent = MaxSends

\* C39: once start() of an agent has raised, the handler of the agent is
\* still the one registered for its role, and a message dequeued for that
\* role is handed to it; and start() raises with the agent in state idle
\* when the error count is within the retry budget, in state error when it
\* is not.
C39_FailedStartStaysSubscribed ==
  /\ [](\A a \in AgentIds : spc[a] = "raised" => subscribers[RoleOf(a)] = a)
  /\ [][\A a \in AgentIds :
          /\ (/\ spc[a] = "raised"
              /\ dispatched' # dispatched
              /\ message_history[Last(dispatched')].recipient = RoleOf(a)) =>
               /\ processing_task' = "deliver"
               /\ cur_handler' = a
               /\ metrics'[a].messages_received = metrics[a].messages_received + 1
          /\ (spc[a] # "raised" /\ spc'[a] = "raised") =>
               state'[a] = IF error_count'[a] <= RetryCount THEN "idle" ELSE "error"]_vars

\* Witness of C39: start() has raised with the budget exhausted, the agent
\* is in state error, and a message sent after that is being handled by it.
C39_Case ==
  \E a \in AgentIds :
    /\ spc[a] = "raised"
    /\ error_count[a] = RetryCount + 1
    /\ processing_task = "deliver"
    /\ cur_handler = a
    /\ previous_state[a] = "error"
    /\ metrics[a].messages_received = 1

\* A second witness of C39: start() has raised within the budget, after its
\* backoff, and the agent is idle.
C39_WithinBudget ==
  \E a \in AgentIds :
    /\ spc[a] = "raised"
    /\ error_count[a] = 1
    /\ state[a] = "idle"
    /\ backoffs[a].cur = 1

\* C40: a response made by an agent carries a conversation id of its own,
\* other than that of the message it answers; it is the only message of its
\* thread, a thread the send of the response adds to the conversation map,
\* and the thread of the message answered does not hold it; the response
\* names the message answered in response_to and goes to its sender.
C40_ResponseOpensItsOwnThread ==
  /\ [](\A n \in 1..Len(message_history) :
          LET m == message_history[n]
          IN IsResponse(m) =>
               /\ m.response_to \in 1..(n - 1)
               /\ LET o == message_history[m.response_to]
                  IN /\ m.conversation_id = PostInitConv(n)
                     /\ m.conversation_id # o.conversation_id
                     /\ m.recipient = o.sender
                     /\ conversations[m.conversation_id].messages = <<n>>
                     /\ \A i \in 1..Len(conversations[o.conversation_id].messages) :
                          conversations[o.conversation_id].messages[i] # n)
  /\ [][(/\ Len(message_history') = Len(message_history) + 1
         /\ IsResponse(Last(message_history'))) =>
          /\ Last(message_history').conversation_id \notin DOMAIN conversations
          /\ DOMAIN conversations' = DOMAIN conversations \cup {Last(message_history').conversation_id}
          /\ \A c \in DOMAIN conversations : conversations'[c] = conversations[c]]_vars

\* Witness of C40: two messages sent under one given conversation id, the
\* first answered by the agent; the thread of that id holds the two messages
\* and the response is alone in a thread of its own.
C40_Case ==
  \E c \in GivenConvs :
    /\ Len(message_history) = 3
    /\ c \in DOMAIN conversations
    /\ conversations[c].messages = <<1, 2>>
    /\ IsResponse(message_history[3])
    /\ message_history[3].response_to = 1
    /\ conversations[PostInitConv(3)].messages = <<3>>

===========================================================================
